---- MODULE Spec2Model ----
(***************************************************************************)
(* Dual-store query federation and synchronization layer of the            *)
(* compensation service: the fallback query router (GraphQL resolvers) and *)
(* the PostgreSQL -> ElasticSearch streamer.                               *)
(*                                                                         *)
(* Values that cross a JavaScript boundary are tagged records              *)
(* [t |-> "null"], [t |-> "num", v |-> n], [t |-> "txt", v |-> chars],     *)
(* [t |-> "bool", v |-> b]: JavaScript's truthiness and its `!== undefined`*)
(* tests tell them apart, so the model has to as well.                     *)
(***************************************************************************)
EXTENDS Integers, Sequences, FiniteSets, TLC

VARIABLES
  ENABLE_FALLBACK,  \* resolvers: process.env.ENABLE_FALLBACK === 'true'
  pgStore,          \* relational table compensation_data: sequence of rows
  req,              \* the router request in progress (one resolver invocation)
  calls,            \* store calls issued for req, in order
  baseline,         \* the last row request answered with fallback disabled
  esDocs,           \* search index compensation_data: id -> document
  esVisible,        \* the documents as of the index's last refresh (what searches see)
  channel,          \* change capture: notifications sent and not yet handed to the handler
  inflight,         \* change capture: search-store requests awaiting their response
  delivered,        \* change capture: number of notifications sent so far
  lastEvent,        \* change capture: the request the search store answered last
  handlerLog,       \* change capture: number of logged processing failures
  unhandled,        \* change capture: a rejection left the handler uncaught
  sync,             \* bulk synchronization: streamDataToElasticSearch's locals and progress
  proc              \* the process: position of its startup, signal handlers, exit code

routerVars == <<ENABLE_FALLBACK, req, calls, baseline>>
captureVars ==
  <<esDocs, esVisible, channel, inflight, delivered, lastEvent, handlerLog, unhandled>>

vars == <<routerVars, pgStore, captureVars, sync, proc>>

-----------------------------------------------------------------------------
(* JavaScript / SQL values *)

Null == [t |-> "null"]
Num(n) == [t |-> "num", v |-> n]
Txt(s) == [t |-> "txt", v |-> s]
Bool(b) == [t |-> "bool", v |-> b]

IsNull(x) == x.t \in {"null", "undef"}

\* JavaScript ToBoolean: undefined, null, 0, "" and false are falsy.
Truthy(x) ==
  CASE x.t \in {"null", "undef"} -> FALSE
    [] x.t = "num" -> x.v # 0
    [] x.t = "txt" -> Len(x.v) > 0
    [] x.t = "bool" -> x.v
    [] OTHER -> TRUE

Min2(a, b) == IF a <= b THEN a ELSE b

Undef == [t |-> "undef"]

IsUndef(x) == x.t = "undef"

\* pagination?.limit and friends: a member of null/undefined reads as undefined.
Member(obj, name) ==
  IF obj.t = "obj" /\ name \in DOMAIN obj.v THEN obj.v[name] ELSE Undef

\* JavaScript `a || b`.
OrElse(a, b) == IF Truthy(a) THEN a ELSE b

-----------------------------------------------------------------------------
(* Filter translator: resolvers' buildWhereClause, buildElasticSearchQuery, *)
(* buildOrderByClause.                                                     *)

\* The filter slots the translators read.  A filter is Undef or
\* [t |-> "obj", v |-> [slot |-> value]]; a range is Undef or an object with
\* members min and max.
FilterSlots ==
  {"employer", "jobTitleContains", "locationContains", "industry", "gender",
   "annualBasePay", "yearsExperienceIndustry", "timestampAfter",
   "timestampBefore", "healthInsuranceOffered", "dataQualityScoreMin"}

Obj(r) == [t |-> "obj", v |-> r]

\* `%${x}%`
Percent(x) == Txt("%" \o x.v \o "%")

\* Variant of Push that does not advance paramIndex.
Push_NoIncrement(acc, col, op, value) ==
  [conditions |-> Append(acc.conditions,
                         [col |-> col, op |-> op, idx |-> acc.paramIndex]),
   params |-> Append(acc.params, value),
   paramIndex |-> acc.paramIndex]

\* conditions.push(`<col> <op> $${paramIndex}`); params.push(value); paramIndex++
Push(acc, col, op, value) ==
  [conditions |-> Append(acc.conditions,
                         [col |-> col, op |-> op, idx |-> acc.paramIndex]),
   params |-> Append(acc.params, value),
   paramIndex |-> acc.paramIndex + 1]

PushIf(cond, acc, col, op, value) == IF cond THEN Push(acc, col, op, value) ELSE acc

\* if (filter.<slot>) { if (min !== undefined) ...; if (max !== undefined) ... }
PushRange(acc, range, col) ==
  IF ~Truthy(range) THEN acc
  ELSE LET a1 == PushIf(~IsUndef(Member(range, "min")), acc, col, ">=",
                        Member(range, "min"))
       IN PushIf(~IsUndef(Member(range, "max")), a1, col, "<=",
                 Member(range, "max"))

buildWhereClause(filter) ==
  IF ~Truthy(filter) THEN [conditions |-> <<>>, params |-> <<>>, paramIndex |-> 1]
  ELSE
    LET f == filter.v
        a0 == [conditions |-> <<>>, params |-> <<>>, paramIndex |-> 1]
        a1 == PushIf(Truthy(f.employer), a0, "employer", "ILIKE", Percent(f.employer))
        a2 == PushIf(Truthy(f.jobTitleContains), a1, "job_title", "ILIKE",
                     Percent(f.jobTitleContains))
        a3 == PushIf(Truthy(f.locationContains), a2, "location", "ILIKE",
                     Percent(f.locationContains))
        a4 == PushIf(Truthy(f.industry), a3, "industry", "=", f.industry)
        a5 == PushIf(Truthy(f.gender), a4, "gender", "ILIKE", f.gender)
        a6 == PushRange(a5, f.annualBasePay, "annual_base_pay")
        a7 == PushRange(a6, f.yearsExperienceIndustry, "years_experience_industry")
        a8 == PushIf(Truthy(f.timestampAfter), a7, "timestamp", ">=", f.timestampAfter)
        a9 == PushIf(Truthy(f.timestampBefore), a8, "timestamp", "<=", f.timestampBefore)
        a10 == PushIf(~IsUndef(f.healthInsuranceOffered), a9,
                      "health_insurance_offered", "=", f.healthInsuranceOffered)
    IN PushIf(~IsUndef(f.dataQualityScoreMin), a10, "data_quality_score", ">=",
              f.dataQualityScoreMin)

\* The default page size and the page-size ceiling of Math.min(limit || 20, 100).
DefaultLimit == 20
MaxLimit == 100

\* Math.min(pagination?.limit || 20, 100)
ClampLimit_NoCeiling(pagination) ==
  OrElse(Member(pagination, "limit"), Num(DefaultLimit)).v

ClampLimit(pagination) ==
  Min2(OrElse(Member(pagination, "limit"), Num(DefaultLimit)).v, MaxLimit)

\* pagination?.offset || 0
PageOffset(pagination) == OrElse(Member(pagination, "offset"), Num(0)).v

Arr(q) == [t |-> "arr", v |-> q]

UpperLetters == "ABCDEFGHIJKLMNOPQRSTUVWXYZ"
LowerLetters == "abcdefghijklmnopqrstuvwxyz"

CharAt(s, i) == SubSeq(s, i, i)

LowerChar(c) ==
  IF \E i \in 1..Len(UpperLetters) : CharAt(UpperLetters, i) = c
  THEN CharAt(LowerLetters, CHOOSE i \in 1..Len(UpperLetters) : CharAt(UpperLetters, i) = c)
  ELSE c

\* String.prototype.toLowerCase
RECURSIVE ToLowerCase(_)
ToLowerCase(s) ==
  IF Len(s) = 0 THEN "" ELSE LowerChar(CharAt(s, 1)) \o ToLowerCase(SubSeq(s, 2, Len(s)))

\* String.prototype.replace(c, '') with a string pattern: the first occurrence only.
RemoveFirst(s, c) ==
  IF \E i \in 1..Len(s) : CharAt(s, i) = c
  THEN LET k == CHOOSE i \in 1..Len(s) :
                  CharAt(s, i) = c /\ \A j \in 1..(i - 1) : CharAt(s, j) # c
       IN SubSeq(s, 1, k - 1) \o SubSeq(s, k + 1, Len(s))
  ELSE s

SeqMap(Op(_), q) == [i \in 1..Len(q) |-> Op(q[i])]

\* sort.map(sortItem => ({ [field]: { order: direction } }))
EsSortItem(sortItem) ==
  [field |-> RemoveFirst(ToLowerCase(sortItem.field), "_"),
   order |-> IF sortItem.direction = "DESC" THEN "desc" ELSE "asc"]

\* const range = {}; if (min !== undefined) range.gte = min; if (max !== undefined) range.lte = max
EsRange(field, range) ==
  [kind |-> "range", field |-> field,
   gte |-> Member(range, "min"), lte |-> Member(range, "max")]

EsMatch(field, text) == [kind |-> "match", field |-> field, query |-> text, fuzziness |-> "AUTO"]

EsTerm(field, value) == [kind |-> "term", field |-> field, value |-> value]

AppendIf(cond, q, x) == IF cond THEN Append(q, x) ELSE q

buildElasticSearchQuery(filter, sort, pagination) ==
  LET from == PageOffset(pagination)
      size == ClampLimit(pagination)
  IN IF ~Truthy(filter)
     THEN [index |-> "compensation_data",
           body |-> [query |-> [kind |-> "match_all", must |-> <<>>],
                     sort |-> <<>>, from |-> from, size |-> size]]
     ELSE
       LET f == filter.v
           m1 == AppendIf(Truthy(f.employer), <<>>, EsMatch("employer", f.employer))
           m2 == AppendIf(Truthy(f.jobTitleContains), m1,
                          EsMatch("job_title", f.jobTitleContains))
           m3 == AppendIf(Truthy(f.locationContains), m2,
                          EsMatch("location", f.locationContains))
           m4 == AppendIf(Truthy(f.industry), m3, EsTerm("industry.keyword", f.industry))
           m5 == AppendIf(Truthy(f.gender), m4, EsTerm("gender", f.gender))
           m6 == AppendIf(Truthy(f.annualBasePay), m5,
                          EsRange("annual_base_pay", f.annualBasePay))
           m7 == AppendIf(Truthy(f.yearsExperienceIndustry), m6,
                          EsRange("years_experience_industry", f.yearsExperienceIndustry))
       IN [index |-> "compensation_data",
           body |-> [query |-> [kind |-> "bool", must |-> m7],
                     sort |-> IF Truthy(sort) /\ Len(sort.v) > 0
                              THEN SeqMap(EsSortItem, sort.v)
                              ELSE <<[field |-> "created_at", order |-> "desc"]>>,
                     from |-> from, size |-> size]]

\* The switch of buildOrderByClause.
OrderByField(field) ==
  CASE field = "TIMESTAMP" -> "timestamp"
    [] field = "ANNUAL_BASE_PAY" -> "annual_base_pay"
    [] field = "ANNUAL_BONUS" -> "annual_bonus"
    [] field = "YEARS_EXPERIENCE_INDUSTRY" -> "years_experience_industry"
    [] field = "YEARS_EXPERIENCE_COMPANY" -> "years_experience_company"
    [] field = "CREATED_AT" -> "created_at"
    [] OTHER -> "created_at"

OrderByItem(sortItem) ==
  [field |-> OrderByField(sortItem.field),
   direction |-> IF sortItem.direction = "DESC" THEN "DESC" ELSE "ASC"]

buildOrderByClause(sort) ==
  IF ~Truthy(sort) \/ Len(sort.v) = 0
  THEN <<[field |-> "created_at", direction |-> "DESC"]>>
  ELSE SeqMap(OrderByItem, sort.v)

-----------------------------------------------------------------------------
(* The relational store as the resolvers see it through query(text, params): *)
(* PostgreSQL's evaluation of the statements the resolvers build.           *)

\* s LIKE p with % (any run) and _ (any one character).
RECURSIVE Like(_, _)
Like(s, p) ==
  IF Len(p) = 0 THEN Len(s) = 0
  ELSE IF Head(p) = "%"
       THEN Like(s, Tail(p)) \/ (Len(s) > 0 /\ Like(Tail(s), p))
       ELSE /\ Len(s) > 0
            /\ (Head(p) = "_" \/ Head(p) = Head(s))
            /\ Like(Tail(s), Tail(p))

\* One condition of the WHERE clause on one row; a comparison with NULL, or
\* between values of different types, selects nothing.
PgCondition(row, cond, params) ==
  LET x == row[cond.col]
      y == params[cond.idx]
  IN /\ x.t = y.t
     /\ x.t \in {"num", "txt", "bool"}
     /\ CASE cond.op = ">=" -> x.t = "num" /\ x.v >= y.v
          [] cond.op = "<=" -> x.t = "num" /\ x.v <= y.v
          [] cond.op = "=" -> x.v = y.v
          [] cond.op = "ILIKE" -> x.t = "txt" /\ Like(ToLowerCase(x.v), ToLowerCase(y.v))
          [] OTHER -> FALSE

PgWhere(row, q) ==
  \A k \in 1..Len(q.conditions) : PgCondition(row, q.conditions[k], q.params)

PgFilter(store, q) ==
  LET Keep(row) == PgWhere(row, q) IN SelectSeq(store, Keep)

\* x sorts before y in ascending order; NULL sorts as larger than any value.
PgLess(x, y) ==
  IF IsNull(x) THEN FALSE
  ELSE IF IsNull(y) THEN TRUE
  ELSE x.v < y.v

PgSame(x, y) == (IsNull(x) /\ IsNull(y)) \/ (~IsNull(x) /\ ~IsNull(y) /\ x.v = y.v)

\* Row a sorts strictly before row b under the ORDER BY items from position k on.
RECURSIVE PgBefore(_, _, _, _)
PgBefore(a, b, orderBy, k) ==
  IF k > Len(orderBy) THEN FALSE
  ELSE LET x == a[orderBy[k].field]
           y == b[orderBy[k].field]
       IN IF PgSame(x, y) THEN PgBefore(a, b, orderBy, k + 1)
          ELSE IF orderBy[k].direction = "DESC" THEN PgLess(y, x) ELSE PgLess(x, y)

\* ORDER BY: rows that compare equal keep their stored order.
PgOrder(rows, orderBy) ==
  LET n == Len(rows)
      Rank(i) == Cardinality({j \in 1..n :
                   \/ PgBefore(rows[j], rows[i], orderBy, 1)
                   \/ (~PgBefore(rows[i], rows[j], orderBy, 1) /\ j < i)})
  IN [k \in 1..n |-> rows[CHOOSE i \in 1..n : Rank(i) = k - 1]]

\* LIMIT l OFFSET o
PgPage(rows, limit, offset) ==
  SubSeq(rows, offset + 1, Min2(Len(rows), offset + limit))

\* SELECT COUNT(*) as total FROM compensation_data <where>
PgCount(store, q) == Len(PgFilter(store, q))

\* SELECT * FROM compensation_data <where> <order by> LIMIT $n+1 OFFSET $n+2,
\* rejected by PostgreSQL when LIMIT or OFFSET is negative.
PgSelect(store, q, orderBy, limit, offset) ==
  IF limit < 0 \/ offset < 0
  THEN [ok |-> FALSE, rows |-> <<>>]
  ELSE [ok |-> TRUE,
        rows |-> PgPage(PgOrder(PgFilter(store, q), orderBy), limit, offset)]

\* SELECT * FROM compensation_data WHERE id = $1
PgById(store, id) ==
  LET Keep(row) == row.id = id IN SelectSeq(store, Keep)

-----------------------------------------------------------------------------
(* JavaScript arithmetic on the values a row carries *)

Digits == "0123456789"

DigitChar(d) == CharAt(Digits, d + 1)

DigitValue(c) == (CHOOSE i \in 1..Len(Digits) : CharAt(Digits, i) = c) - 1

\* Number.prototype.toString of a non-negative integer
RECURSIVE NumToStr(_)
NumToStr(n) == IF n < 10 THEN DigitChar(n) ELSE NumToStr(n \div 10) \o DigitChar(n % 10)

\* ToNumber of a string of decimal digits
RECURSIVE StrToNum(_)
StrToNum(s) ==
  IF Len(s) = 0 THEN 0
  ELSE StrToNum(SubSeq(s, 1, Len(s) - 1)) * 10 + DigitValue(CharAt(s, Len(s)))

JsToString(x) == IF x.t = "num" THEN NumToStr(x.v) ELSE x.v

\* ToNumber; a string of ten digits or more is read as 10^9, which is above
\* every threshold a number is compared with here and keeps the arithmetic
\* inside TLC's 32-bit integers.
JsToNumber(x) ==
  IF x.t = "num" THEN x.v
  ELSE IF Len(x.v) >= 10 THEN 1000000000
  ELSE StrToNum(x.v)

\* JavaScript `a + b`: a sum of two numbers, a concatenation once either is a string.
JsPlus(a, b) ==
  IF a.t = "num" /\ b.t = "num" THEN Num(a.v + b.v)
  ELSE Txt(JsToString(a) \o JsToString(b))

-----------------------------------------------------------------------------
(* Record transformer: streamer's transformRecord *)

\* Amounts are in cents; the thresholds below are totalInDollars < 50000,
\* < 100000, < 200000 with totalInDollars = total_compensation / 100.
CentsPerDollar == 100

transformRecord_Inclusive(record) ==
  LET basePay == OrElse(record.annual_base_pay, Num(0))
      bonus == OrElse(record.annual_bonus, Num(0))
      stock == OrElse(record.stock_value, Num(0))
      total == JsPlus(JsPlus(basePay, bonus), stock)
      cents == JsToNumber(total)
      range == IF cents <= 50000 * CentsPerDollar THEN "Entry Level"
               ELSE IF cents <= 100000 * CentsPerDollar THEN "Mid Level"
               ELSE IF cents <= 200000 * CentsPerDollar THEN "Senior Level"
               ELSE "Executive Level"
      experience == JsToNumber(OrElse(record.years_experience_industry, Num(0)))
      level == IF experience < 2 THEN "Junior"
               ELSE IF experience < 5 THEN "Mid-Level"
               ELSE IF experience < 10 THEN "Senior"
               ELSE "Expert"
  IN [total_compensation |-> total,
      compensation_range |-> Txt(range),
      experience_level |-> Txt(level)] @@ record

\* Variant of transformRecord that stores the base pay as a number and
\* leaves the derived fields empty.
transformRecord_Coerce(record) ==
  [annual_base_pay |-> Num(JsToNumber(OrElse(record.annual_base_pay, Num(0)))),
   total_compensation |-> Null,
   compensation_range |-> Null,
   experience_level |-> Null] @@ record

transformRecord(record) ==
  LET basePay == OrElse(record.annual_base_pay, Num(0))
      bonus == OrElse(record.annual_bonus, Num(0))
      stock == OrElse(record.stock_value, Num(0))
      total == JsPlus(JsPlus(basePay, bonus), stock)
      cents == JsToNumber(total)
      range == IF cents < 50000 * CentsPerDollar THEN "Entry Level"
               ELSE IF cents < 100000 * CentsPerDollar THEN "Mid Level"
               ELSE IF cents < 200000 * CentsPerDollar THEN "Senior Level"
               ELSE "Executive Level"
      experience == JsToNumber(OrElse(record.years_experience_industry, Num(0)))
      level == IF experience < 2 THEN "Junior"
               ELSE IF experience < 5 THEN "Mid-Level"
               ELSE IF experience < 10 THEN "Senior"
               ELSE "Expert"
  IN [total_compensation |-> total,
      compensation_range |-> Txt(range),
      experience_level |-> Txt(level)] @@ record

-----------------------------------------------------------------------------
(* Fixture data *)

\* The largest number of rows of compensation_data.
MaxRows == 3

Pick(i, choices) == choices[((i - 1) % Len(choices)) + 1]

RowOf(i) ==
  [id |-> i,
   employer |-> Pick(i, <<Txt("Acme"), Txt("Globex"), Null>>),
   job_title |-> Pick(i, <<Txt("Software Engineer"), Txt("Analyst")>>),
   location |-> Pick(i, <<Txt("San Francisco"), Txt("Austin"), Txt("San Francisco")>>),
   industry |-> Pick(i, <<Txt("Tech"), Null>>),
   gender |-> Pick(i, <<Txt("Female"), Txt("Male")>>),
   annual_base_pay |-> Pick(i, <<Num(12000000), Num(4000000), Null, Num(9500000)>>),
   annual_bonus |-> Pick(i, <<Num(1000000), Null>>),
   stock_value |-> Pick(i, <<Null, Num(0), Num(8000000)>>),
   signing_bonus |-> Pick(i, <<Num(500000), Null>>),
   years_experience_industry |-> Pick(i, <<Num(3), Null, Num(12), Num(1)>>),
   years_experience_company |-> Pick(i, <<Num(1), Num(2)>>),
   timestamp |-> Num(i),
   health_insurance_offered |-> Pick(i, <<Bool(TRUE), Bool(FALSE), Null>>),
   data_quality_score |-> Num(1),
   created_at |-> Pick(i, <<Num(7), Num(5), Num(7), Num(9)>>)]

Table(n) == [i \in 1..n |-> RowOf(i)]

\* The columns PostgreSQL declares BIGINT, which node-postgres hands over as
\* decimal strings; row_to_json in the trigger emits them as JSON numbers.
BigIntColumns == {"annual_base_pay", "annual_bonus", "signing_bonus", "stock_value"}

PgDriverValue(col, x) ==
  IF col \in BigIntColumns /\ x.t = "num" THEN Txt(NumToStr(x.v)) ELSE x

PgDriverRow(row) ==
  [col \in DOMAIN row |-> IF col = "id" THEN row.id ELSE PgDriverValue(col, row[col])]

\* Ascending sequence of a finite set of integers.
SortedSeq(S) ==
  [k \in 1..Cardinality(S) |-> CHOOSE i \in S : Cardinality({j \in S : j < i}) = k - 1]

\* The index after a bulk synchronization of a table that met no failure:
\* under each row's id, the transform of the row as the driver delivered it.
IndexOf(table) ==
  [i \in {table[k].id : k \in 1..Len(table)} |->
     transformRecord(PgDriverRow(table[CHOOSE k \in 1..Len(table) : table[k].id = i]))]

-----------------------------------------------------------------------------
(* Bulk synchronization: what streamDataToElasticSearch computes *)

\* const BATCH_SIZE = 1000, scaled down so that a small table spans several
\* windows.
BATCH_SIZE == 2

\* const MAX_RETRIES = 3
MAX_RETRIES == 3

\* The largest table the bulk synchronization is run over.
MaxSyncRows == 5

\* parseInt of the text PostgreSQL returns for COUNT(*)
parseInt(x) == StrToNum(x.v)

\* SELECT COUNT(*) FROM compensation_data: a bigint, which the driver returns
\* as text
CountQuery(store) == <<[count |-> Txt(NumToStr(Len(store)))]>>

\* SELECT * FROM compensation_data ORDER BY id LIMIT $1 OFFSET $2
WindowQuery(store, limit, offset) ==
  LET ids == SortedSeq({store[k].id : k \in 1..Len(store)})
      byId == [k \in 1..Len(ids) |-> PgDriverRow(PgById(store, ids[k])[1])]
  IN PgPage(byId, limit, offset)

\* bulkOps, one entry for each { index: {_index, _id} }, document pair
BulkOps(records) ==
  [k \in 1..Len(records) |->
     [_id |-> records[k].id, doc |-> transformRecord(records[k])]]

\* The index after a bulk request of which the store rejected the items at
\* the positions in rejected and indexed the others.
EsBulk(docs, ops, rejected) ==
  LET taken == {k \in 1..Len(ops) : k \notin rejected}
      ids == {ops[k]._id : k \in taken}
  IN [i \in DOMAIN docs \cup ids |->
        IF i \in ids
        THEN ops[CHOOSE k \in taken :
                   ops[k]._id = i /\ \A j \in taken : ops[j]._id = i => j <= k].doc
        ELSE docs[i]]

\* The body of the bulk response.
BulkResponse(ops, rejected) ==
  [errors |-> rejected # {},
   items |-> [k \in 1..Len(ops) |->
                [index |-> [_id |-> ops[k]._id, error |-> k \in rejected]]]]

\* if (bulkResponse.errors) errorCount = items.filter(item.index && item.index.error).length
ErrorCount_AllItems(response) ==
  IF response.errors THEN Len(response.items) ELSE 0

ErrorCount(response) ==
  IF response.errors
  THEN Cardinality({k \in 1..Len(response.items) : response.items[k].index.error})
  ELSE 0

\* if (retries >= MAX_RETRIES): the window is given up
Exhausted_Late(retries) == retries > MAX_RETRIES

\* Variant of Exhausted that moves on after the first failed attempt.
Exhausted_Early(retries) == retries >= 1

Exhausted(retries) == retries >= MAX_RETRIES

\* The delay of the retry loop is retries * 1000 ms.
BaseDelayMs == 1000

\* Variant of BackoffMs that waits the base delay after every failed attempt.
BackoffMs_Fixed(retries) == BaseDelayMs

\* await new Promise(resolve => setTimeout(resolve, retries * 1000))
BackoffMs(retries) == retries * BaseDelayMs

\* await new Promise(resolve => setTimeout(resolve, 100)) at the end of each
\* turn of the window loop
BatchPauseMs == 100

\* offset += BATCH_SIZE
NextOffset_ByOne(offset) == offset + 1

NextOffset(offset) == offset + BATCH_SIZE

\* while (offset < totalRecords) ... ; then the final refresh
LoopPc(offset, totalRecords) == IF offset < totalRecords THEN "window" ELSE "refresh"

\* The catch of a bulk write that has used up its retries adds the window to
\* the failed count and throws nothing: the outer loop goes on.
GiveUpPc_Raise(offset, totalRecords) == "threw"

GiveUpPc(offset, totalRecords) == LoopPc(offset, totalRecords)

\* A process that has started up and has received no signal.
ProcUp == [step |-> "running"]

\* Nothing logged about the index yet.
NoLog == [level |-> "none", count |-> 0]

\* logger.info(`ElasticSearch index now contains: ${esCountResponse.count}
\* documents`), whatever totalRecords is
VerifyLog(esCountResponse, totalRecords) ==
  [level |-> "info", count |-> esCountResponse.count]

\* The streamer once streamDataToElasticSearch has returned, of which the
\* router and the change capture keep only the keys its windows wrote.
SyncOver(written) ==
  [pc |-> "done", totalRecords |-> 0, offset |-> 0, processedRecords |-> 0,
   failedRecords |-> 0, records |-> <<>>, retries |-> 0, windows |-> <<>>,
   counted |-> 0, refreshed |-> 0, written |-> written, verified |-> 0,
   verifyLog |-> NoLog]

-----------------------------------------------------------------------------
(* The two stores as the router calls them *)

\* query(text, params) of the connection module on a statement the resolvers
\* build: the rows node-postgres returns, or ok = FALSE when PostgreSQL rejects
\* the statement.  COUNT(*) is a bigint, so the driver returns it as a string.
PgExec(store, q) ==
  CASE q.stmt = "select_by_id" ->
         [ok |-> TRUE, rows |-> SeqMap(PgDriverRow, PgById(store, q.params[1].v))]
    [] q.stmt = "count" ->
         [ok |-> TRUE,
          rows |-> <<[total |-> Txt(NumToStr(PgCount(store, q)))]>>]
    [] q.stmt = "select" ->
         LET r == PgSelect(store, q, q.orderBy, q.params[q.limitIdx].v,
                           q.params[q.offsetIdx].v)
         IN [ok |-> r.ok, rows |-> SeqMap(PgDriverRow, r.rows)]
    [] q.stmt = "stats" ->
         LET Paid(row) == row.annual_base_pay.t = "num" /\ row.annual_base_pay.v > 0
         IN [ok |-> TRUE,
             rows |-> <<[count |-> Txt(NumToStr(Len(SelectSeq(PgFilter(store, q), Paid))))]>>]

\* The shapes hits.total arrives in: { value, relation } or a bare number.
TotalShapes == {"object", "number"}

EsTotal(shape, n) ==
  IF shape = "object" THEN Obj([value |-> n, relation |-> "eq"]) ELSE Num(n)

\* The page [from, from + size) of the matching documents.
EsHits(docs, matched, from, size) ==
  LET ids == SortedSeq(matched)
      page == SubSeq(ids, from + 1, Min2(Len(ids), from + size))
  IN [k \in 1..Len(page) |-> [_id |-> page[k], _source |-> docs[page[k]]]]

\* The sets of documents ElasticSearch may report as matching: a term query on
\* _id matches that document alone; for the other queries analysis, fuzziness
\* and the index's content decide, which is left open here.
EsMatches(docs, query) ==
  IF query.kind = "term_id" THEN {{query.id} \cap DOMAIN docs}
  ELSE SUBSET DOMAIN docs

\* What client.search may answer to a request body; a negative from or size is
\* rejected.
SearchResponses(docs, body) ==
  IF body.from < 0 \/ body.size < 0 THEN {}
  ELSE {[total |-> EsTotal(shape, Cardinality(m)),
         hits |-> EsHits(docs, m, body.from, body.size)] :
          shape \in TotalShapes, m \in EsMatches(docs, body.query)}

\* search(query) of the elasticsearch module: the response, or a thrown error
\* (which it logs and rethrows).
SearchOutcomes(docs, esQuery) ==
  {[ok |-> FALSE]} \cup
  {[ok |-> TRUE, hits |-> r] : r \in SearchResponses(docs, esQuery.body)}

\* aggregate(aggregations, query = {}) of the elasticsearch module: it sends
\* its first argument as the request's aggs and returns response.aggregations,
\* which ElasticSearch keys by the names of the requested aggregations.
AggregateOutcomes(aggregations) ==
  {[ok |-> FALSE],
   [ok |-> TRUE,
    aggregations |-> Obj([name \in DOMAIN aggregations |-> Obj([count |-> Num(0)])])]}

\* hit => ({ ...hit._source, id: hit._id })
HitRow(hit) == ("id" :> hit._id) @@ hit._source

-----------------------------------------------------------------------------
(* Fallback query router: queryWithFallback, aggregateWithFallback and the  *)
(* compensations resolver.  One request is in progress at a time; requests  *)
(* share nothing but the stores, which requests only read.                  *)

NoOut == [kind |-> "none"]

IdleReq ==
  [handler |-> "none", pc |-> "idle", args |-> Undef, esQuery |-> Undef,
   pgQuery |-> Undef, dataQuery |-> Undef, limit |-> 0, offset |-> 0,
   totalCount |-> 0, out |-> NoOut]

\* A result handed back to the caller.  source is Undef where the returned
\* object has no source member; rows is the member `rows`, or `data` for the
\* compensations resolver.
Result(source, rows, totalCount, limit, offset, aggregations) ==
  [kind |-> "result", source |-> source, rows |-> rows, totalCount |-> totalCount,
   hasNextPage |-> offset + limit < totalCount, hasPreviousPage |-> offset > 0,
   aggregations |-> aggregations]

\* An error thrown to the caller; cause names the store whose failure it reports.
Thrown(cause) == [kind |-> "error", cause |-> cause]

\* One store call of the request in progress: the statement or query sent and what
\* came back (resp is read only where ok).
Call(op, ok, q, resp) == [op |-> op, ok |-> ok, q |-> q, resp |-> resp]

EmptyFilter == [slot \in FilterSlots |-> Undef]

Filters ==
  {Undef,
   Obj([EmptyFilter EXCEPT !.annualBasePay = Obj([min |-> Num(4000000)])]),
   Obj([EmptyFilter EXCEPT !.locationContains = Txt("san")])}

Sorts == {Undef, Arr(<<[field |-> "ANNUAL_BASE_PAY", direction |-> "DESC"]>>)}

Paginations ==
  {Undef, Obj([limit |-> Num(1), offset |-> Num(1)]), Obj([limit |-> Num(0 - 1)])}

\* The answer kept for comparison: the last result returned with fallback disabled.
Answered(r) ==
  IF ~ENABLE_FALLBACK /\ r.out.kind = "result"
  THEN [handler |-> r.handler, args |-> r.args, out |-> r.out]
  ELSE baseline

\* The process is started again with ENABLE_FALLBACK set the other way.
Restart ==
  /\ req.pc = "idle"
  /\ ENABLE_FALLBACK' = ~ENABLE_FALLBACK
  /\ req' = IdleReq
  /\ calls' = <<>>
  /\ UNCHANGED <<proc, pgStore, baseline, captureVars, sync>>

\* The resolver has returned or thrown; the next request may arrive.
Return ==
  /\ req.pc = "done"
  /\ req' = IdleReq
  /\ calls' = <<>>
  /\ UNCHANGED <<proc, ENABLE_FALLBACK, pgStore, baseline, captureVars, sync>>

\* resolvers.Query.compensation up to its call of queryWithFallback
Compensation(id) ==
  /\ req.pc = "idle"
  /\ req' = [IdleReq EXCEPT
       !.handler = "queryWithFallback", !.pc = "entry", !.args = [id |-> id],
       !.esQuery = [index |-> "compensation_data",
                    body |-> [query |-> [kind |-> "term_id", id |-> id],
                              sort |-> <<>>, from |-> 0, size |-> 10]],
       !.pgQuery = [stmt |-> "select_by_id", params |-> <<Num(id)>>]]
  /\ calls' = <<>>
  /\ UNCHANGED <<proc, ENABLE_FALLBACK, pgStore, baseline, captureVars, sync>>

\* queryWithFallback with !ENABLE_FALLBACK: the raw result of query(), or its error
QwfOnDirect(r, ok, rows) ==
  [r EXCEPT !.pc = "done",
     !.out = IF ok THEN Result(Undef, rows, Len(rows), 0, 0, Undef)
             ELSE Thrown("postgresql")]

\* queryWithFallback with !ENABLE_FALLBACK: return await query(pgQuery, pgParams)
QwfDirect ==
  /\ req.handler = "queryWithFallback" /\ req.pc = "entry"
  /\ ~ENABLE_FALLBACK
  /\ \E up \in BOOLEAN :
       LET r == PgExec(pgStore, req.pgQuery)
           ok == up /\ r.ok
       IN /\ calls' = Append(calls, Call("query", ok, req.pgQuery, r))
          /\ req' = QwfOnDirect(req, ok, r.rows)
  /\ baseline' = Answered(req')
  /\ UNCHANGED <<proc, ENABLE_FALLBACK, pgStore, captureVars, sync>>

\* Variant of QwfOnSearch that lets the search error reach the caller.
QwfOnSearch_Surface(r, o) ==
  IF ~o.ok THEN [r EXCEPT !.pc = "done", !.out = Thrown("elasticsearch")]
  ELSE IF Len(o.hits.hits) > 0
  THEN [r EXCEPT !.pc = "done",
          !.out = Result(Txt("elasticsearch"), SeqMap(HitRow, o.hits.hits),
                         Len(o.hits.hits), 0, 0, Undef)]
  ELSE [r EXCEPT !.pc = "secondary"]

\* Variant of QwfOnSearch that returns a clean response even when it has no hits.
QwfOnSearch_TrustEmpty(r, o) ==
  IF o.ok
  THEN [r EXCEPT !.pc = "done",
          !.out = Result(Txt("elasticsearch"), SeqMap(HitRow, o.hits.hits),
                         Len(o.hits.hits), 0, 0, Undef)]
  ELSE [r EXCEPT !.pc = "secondary"]

\* queryWithFallback after search(esQuery): hits are returned tagged
\* 'elasticsearch'; no hits, or a thrown error, leads on to PostgreSQL.
QwfOnSearch(r, o) ==
  IF o.ok /\ Len(o.hits.hits) > 0
  THEN [r EXCEPT !.pc = "done",
          !.out = Result(Txt("elasticsearch"), SeqMap(HitRow, o.hits.hits),
                         Len(o.hits.hits), 0, 0, Undef)]
  ELSE [r EXCEPT !.pc = "secondary"]

\* queryWithFallback, the try block around search(esQuery)
QwfSearch ==
  /\ req.handler = "queryWithFallback" /\ req.pc = "entry"
  /\ ENABLE_FALLBACK
  /\ \E o \in SearchOutcomes(esDocs, req.esQuery) :
       /\ calls' = Append(calls, Call("search", o.ok, req.esQuery, o))
       /\ req' = QwfOnSearch(req, o)
  /\ UNCHANGED <<proc, ENABLE_FALLBACK, pgStore, baseline, captureVars, sync>>

\* Variant of QwfOnQuery that goes back to the search store when PostgreSQL fails.
QwfOnQuery_BackToPrimary(r, ok, rows) ==
  IF ok
  THEN [r EXCEPT !.pc = "done",
          !.out = Result(Txt("postgresql"), rows, Len(rows), 0, 0, Undef)]
  ELSE [r EXCEPT !.pc = "entry"]

\* queryWithFallback after the fallback query: the result tagged 'postgresql',
\* or the error rethrown.
QwfOnQuery(r, ok, rows) ==
  [r EXCEPT !.pc = "done",
     !.out = IF ok THEN Result(Txt("postgresql"), rows, Len(rows), 0, 0, Undef)
             ELSE Thrown("postgresql")]

\* queryWithFallback, "Fallback to PostgreSQL"
QwfFallback ==
  /\ req.handler = "queryWithFallback" /\ req.pc = "secondary"
  /\ \E up \in BOOLEAN :
       LET r == PgExec(pgStore, req.pgQuery)
           ok == up /\ r.ok
       IN /\ calls' = Append(calls, Call("query", ok, req.pgQuery, r))
          /\ req' = QwfOnQuery(req, ok, r.rows)
  /\ UNCHANGED <<proc, ENABLE_FALLBACK, pgStore, baseline, captureVars, sync>>

\* resolvers.Query.compensations up to its first await
Compensations(filter, sort, pagination) ==
  /\ req.pc = "idle"
  /\ LET w == buildWhereClause(filter)
         orderByClause == buildOrderByClause(sort)
         limit == ClampLimit(pagination)
         offset == PageOffset(pagination)
         n == Len(w.params)
     IN req' = [IdleReq EXCEPT
          !.handler = "compensations", !.pc = "entry",
          !.args = [filter |-> filter, sort |-> sort, pagination |-> pagination],
          !.esQuery = buildElasticSearchQuery(filter, sort, pagination),
          !.pgQuery = [stmt |-> "count", conditions |-> w.conditions, params |-> w.params],
          !.dataQuery = [stmt |-> "select", conditions |-> w.conditions,
                         orderBy |-> orderByClause, limitIdx |-> n + 1, offsetIdx |-> n + 2,
                         params |-> w.params \o <<Num(limit), Num(offset)>>],
          !.limit = limit, !.offset = offset]
  /\ calls' = <<>>
  /\ UNCHANGED <<proc, ENABLE_FALLBACK, pgStore, baseline, captureVars, sync>>

\* typeof total === 'object' ? total.value : total
TotalValue(total) == IF total.t = "obj" THEN total.v.value ELSE total.v

\* Variant of ListOnSearch that never answers from the search store.
ListOnSearch_NeverAccept(r, o) == [r EXCEPT !.pc = "secondary"]

\* Variant of ListOnSearch that answers a search error with an empty page.
ListOnSearch_EmptyOnError(r, o) ==
  IF o.ok /\ Truthy(o.hits.total)
  THEN [r EXCEPT !.pc = "done",
          !.out = Result(Txt("elasticsearch"), SeqMap(HitRow, o.hits.hits),
                         TotalValue(o.hits.total), r.limit, r.offset, Undef)]
  ELSE IF ~o.ok
  THEN [r EXCEPT !.pc = "done",
          !.out = Result(Txt("elasticsearch"), <<>>, 0, r.limit, r.offset, Undef)]
  ELSE [r EXCEPT !.pc = "secondary"]

\* Variant of ListOnSearch that tests the number of matches, not hits.total itself.
ListOnSearch_CountTest(r, o) ==
  IF o.ok /\ TotalValue(o.hits.total) > 0
  THEN [r EXCEPT !.pc = "done",
          !.out = Result(Txt("elasticsearch"), SeqMap(HitRow, o.hits.hits),
                         TotalValue(o.hits.total), r.limit, r.offset, Undef)]
  ELSE [r EXCEPT !.pc = "secondary"]

\* compensations after search(esQuery): a response whose hits.total is truthy
\* is returned tagged 'elasticsearch'; otherwise on to PostgreSQL.
ListOnSearch(r, o) ==
  IF o.ok /\ Truthy(o.hits.total)
  THEN [r EXCEPT !.pc = "done",
          !.out = Result(Txt("elasticsearch"), SeqMap(HitRow, o.hits.hits),
                         TotalValue(o.hits.total), r.limit, r.offset, Undef)]
  ELSE [r EXCEPT !.pc = "secondary"]

\* Variant of ListTriesSearch that ignores the flag.
ListTriesSearch_Always == TRUE

\* if (ENABLE_FALLBACK) around the search of compensations
ListTriesSearch == ENABLE_FALLBACK

\* compensations, the inner try block: if (ENABLE_FALLBACK) search(esQuery)
ListSearch ==
  /\ req.handler = "compensations" /\ req.pc = "entry"
  /\ ListTriesSearch
  /\ \E o \in SearchOutcomes(esDocs, req.esQuery) :
       /\ calls' = Append(calls, Call("search", o.ok, req.esQuery, o))
       /\ req' = ListOnSearch(req, o)
  /\ UNCHANGED <<proc, ENABLE_FALLBACK, pgStore, baseline, captureVars, sync>>

\* Variant of ListOnCount that swallows a failed count and goes on to the data query.
ListOnCount_Swallow(r, ok, rows) ==
  IF ok THEN [r EXCEPT !.pc = "data", !.totalCount = StrToNum(rows[1].total.v)]
  ELSE [r EXCEPT !.pc = "data", !.totalCount = 0]

\* compensations after the count query: parseInt(countResult.rows[0].total), or
\* the error caught by the outer catch and thrown as 'Failed to fetch compensations'.
ListOnCount(r, ok, rows) ==
  IF ok THEN [r EXCEPT !.pc = "data", !.totalCount = StrToNum(rows[1].total.v)]
  ELSE [r EXCEPT !.pc = "done", !.out = Thrown("postgresql")]

\* compensations after the data query: the connection tagged 'postgresql', or
\* the error thrown as 'Failed to fetch compensations'.
ListOnData(r, ok, rows) ==
  [r EXCEPT !.pc = "done",
     !.out = IF ok THEN Result(Txt("postgresql"), rows, r.totalCount, r.limit, r.offset,
                               Undef)
             ELSE Thrown("postgresql")]

\* compensations, "Fallback to PostgreSQL": the count query and parseInt
ListCount ==
  /\ req.handler = "compensations"
  /\ req.pc = "secondary" \/ (req.pc = "entry" /\ ~ENABLE_FALLBACK)
  /\ \E up \in BOOLEAN :
       LET r == PgExec(pgStore, req.pgQuery)
           ok == up /\ r.ok
       IN /\ calls' = Append(calls, Call("query", ok, req.pgQuery, r))
          /\ req' = ListOnCount(req, ok, r.rows)
  /\ UNCHANGED <<proc, ENABLE_FALLBACK, pgStore, baseline, captureVars, sync>>

\* compensations: the data query and the returned connection
ListData ==
  /\ req.handler = "compensations" /\ req.pc = "data"
  /\ \E up \in BOOLEAN :
       LET r == PgExec(pgStore, req.dataQuery)
           ok == up /\ r.ok
       IN /\ calls' = Append(calls, Call("query", ok, req.dataQuery, r))
          /\ req' = ListOnData(req, ok, r.rows)
  /\ baseline' = Answered(req')
  /\ UNCHANGED <<proc, ENABLE_FALLBACK, pgStore, captureVars, sync>>

\* resolvers.Query.compensationStats up to its call of aggregateWithFallback
CompensationStats(filter) ==
  /\ req.pc = "idle"
  /\ LET w == buildWhereClause(filter)
     IN req' = [IdleReq EXCEPT
          !.handler = "aggregateWithFallback", !.pc = "entry",
          !.args = [filter |-> filter],
          !.esQuery = [index |-> "compensation_data",
                       body |-> [query |-> IF Truthy(filter)
                                            THEN buildElasticSearchQuery(filter, Undef, Undef).body.query
                                            ELSE [kind |-> "match_all", must |-> <<>>],
                                 size |-> 0,
                                 aggs |-> [stats |-> "annual_base_pay",
                                           experience_stats |-> "years_experience_industry"]]],
          !.pgQuery = [stmt |-> "stats", conditions |-> w.conditions, params |-> w.params]]
  /\ calls' = <<>>
  /\ UNCHANGED <<proc, ENABLE_FALLBACK, pgStore, baseline, captureVars, sync>>

\* aggregateWithFallback with !ENABLE_FALLBACK: the raw result of query(), or its error
AggOnDirect(r, ok, rows) ==
  [r EXCEPT !.pc = "done",
     !.out = IF ok THEN Result(Undef, rows, Len(rows), 0, 0, Undef)
             ELSE Thrown("postgresql")]

\* aggregateWithFallback after the fallback query: the result tagged
\* 'postgresql'; an error of query() propagates.
AggOnQuery(r, ok, rows) ==
  [r EXCEPT !.pc = "done",
     !.out = IF ok THEN Result(Txt("postgresql"), rows, Len(rows), 0, 0, Undef)
             ELSE Thrown("postgresql")]

\* aggregateWithFallback with !ENABLE_FALLBACK: return await query(pgAggQuery, pgParams)
AggDirect ==
  /\ req.handler = "aggregateWithFallback" /\ req.pc = "entry"
  /\ ~ENABLE_FALLBACK
  /\ \E up \in BOOLEAN :
       LET r == PgExec(pgStore, req.pgQuery)
           ok == up /\ r.ok
       IN /\ calls' = Append(calls, Call("query", ok, req.pgQuery, r))
          /\ req' = AggOnDirect(req, ok, r.rows)
  /\ baseline' = Answered(req')
  /\ UNCHANGED <<proc, ENABLE_FALLBACK, pgStore, captureVars, sync>>

\* aggregateWithFallback after aggregate(esAggQuery): esResult is what
\* aggregate returned, and it is used when esResult.aggregations is truthy.
AggOnSearch(r, o) ==
  IF o.ok /\ Truthy(o.aggregations) /\ Truthy(Member(o.aggregations, "aggregations"))
  THEN [r EXCEPT !.pc = "done",
          !.out = Result(Txt("elasticsearch"), <<>>, 0, 0, 0,
                         Member(o.aggregations, "aggregations"))]
  ELSE [r EXCEPT !.pc = "secondary"]

\* aggregateWithFallback, the try block around aggregate(esAggQuery)
AggSearch ==
  /\ req.handler = "aggregateWithFallback" /\ req.pc = "entry"
  /\ ENABLE_FALLBACK
  /\ \E o \in AggregateOutcomes(req.esQuery) :
       /\ calls' = Append(calls, Call("aggregate", o.ok, req.esQuery, o))
       /\ req' = AggOnSearch(req, o)
  /\ UNCHANGED <<proc, ENABLE_FALLBACK, pgStore, baseline, captureVars, sync>>

\* aggregateWithFallback, "Fallback to PostgreSQL"
AggFallback ==
  /\ req.handler = "aggregateWithFallback" /\ req.pc = "secondary"
  /\ \E up \in BOOLEAN :
       LET r == PgExec(pgStore, req.pgQuery)
           ok == up /\ r.ok
       IN /\ calls' = Append(calls, Call("query", ok, req.pgQuery, r))
          /\ req' = AggOnQuery(req, ok, r.rows)
  /\ UNCHANGED <<proc, ENABLE_FALLBACK, pgStore, baseline, captureVars, sync>>

\* No search-store request of change capture has been answered yet.
NoEvent ==
  [msg |-> [wellFormed |-> FALSE], outcome |-> "none", repeat |-> FALSE, changed |-> FALSE,
   present |-> FALSE, failuresBefore |-> 0, overtook |-> FALSE]

InitRouter ==
  /\ ENABLE_FALLBACK \in BOOLEAN
  /\ \E n \in 0..MaxRows, m \in 0..MaxRows :
       /\ m \in {0, n}
       /\ pgStore = Table(n)
       /\ esDocs = IndexOf(Table(m))
       /\ esVisible = IndexOf(Table(m))
  /\ req = IdleReq
  /\ calls = <<>>
  /\ baseline = [handler |-> "none", args |-> Undef, out |-> NoOut]
  /\ channel = <<>>
  /\ inflight = <<>>
  /\ delivered = 0
  /\ lastEvent = NoEvent
  /\ handlerLog = 0
  /\ unhandled = FALSE
  /\ sync = SyncOver(DOMAIN esDocs)
  /\ proc = ProcUp

NextRouter ==
  \/ Restart
  \/ Return
  \/ \E id \in 1..(MaxRows + 1) : Compensation(id)
  \/ QwfDirect
  \/ QwfSearch
  \/ QwfFallback
  \/ \E filter \in Filters, sort \in Sorts, pagination \in Paginations :
       Compensations(filter, sort, pagination)
  \/ ListSearch
  \/ ListCount
  \/ ListData
  \/ \E filter \in Filters : CompensationStats(filter)
  \/ AggDirect
  \/ AggSearch
  \/ AggFallback

SpecRouter == InitRouter /\ [][NextRouter]_vars

-----------------------------------------------------------------------------
(* Properties of the fallback query router, checked under SpecRouter *)

Done == req.pc = "done"

IsSearch(c) == c.op \in {"search", "aggregate"}

\* The request's first store call went to the search store and threw.
SearchFailed == Len(calls) >= 1 /\ IsSearch(calls[1]) /\ ~calls[1].ok

\* The request's first store call is a search that completed without error.
SearchAnswered == Len(calls) >= 1 /\ calls[1].op = "search" /\ calls[1].ok

\* The number of matches that search reported.
Matches == TotalValue(calls[1].resp.hits.total)

\* The relational statement the resolver built for the request in progress.
RelationalQueryOf(r) ==
  IF r.handler = "queryWithFallback"
  THEN [stmt |-> "select_by_id", params |-> <<Num(r.args.id)>>]
  ELSE LET w == buildWhereClause(r.args.filter)
       IN [stmt |-> IF r.handler = "compensations" THEN "count" ELSE "stats",
           conditions |-> w.conditions, params |-> w.params]

Keys(rows) == [k \in 1..Len(rows) |-> rows[k].id]

\* C1: with fallback enabled, when the search-store query of a request throws,
\* the router goes on to the relational store: the next store call is the
\* relational query built for the same request, and what the caller gets is
\* that query's result tagged 'postgresql' (or the relational failure), never
\* the search error.
C1_SearchErrorFallsBack ==
  (ENABLE_FALLBACK /\ SearchFailed) =>
     /\ Len(calls) = 1 => req.pc = "secondary"
     /\ Len(calls) >= 2 => calls[2].op = "query" /\ calls[2].q = RelationalQueryOf(req)
     /\ Done =>
          /\ Len(calls) >= 2
          /\ req.out.kind = "result" =>
               /\ req.out.source = Txt("postgresql")
               /\ calls[Len(calls)].ok
               /\ req.out.rows = calls[Len(calls)].resp.rows
          /\ req.out.kind = "error" => req.out.cause = "postgresql"

C1_Witness ==
  /\ ENABLE_FALLBACK /\ SearchFailed /\ Done
  /\ req.handler = "queryWithFallback"
  /\ req.out.kind = "result" /\ Len(req.out.rows) = 1

\* C2: with fallback enabled, a search that succeeds with one or more matching
\* rows ends the request at once: the hits are returned with source
\* 'elasticsearch' and no relational query is issued.
C2_SearchHitsReturned ==
  (ENABLE_FALLBACK /\ SearchAnswered /\ Matches >= 1) =>
     /\ Done
     /\ Len(calls) = 1
     /\ req.out.kind = "result"
     /\ req.out.source = Txt("elasticsearch")
     /\ req.out.rows = SeqMap(HitRow, calls[1].resp.hits.hits)

C2_Witness ==
  /\ ENABLE_FALLBACK /\ SearchAnswered /\ Matches >= 2
  /\ req.handler = "compensations" /\ Done /\ Len(req.out.rows) >= 1

\* C3: with the fallback flag disabled no request issues a search-store call:
\* every store call is a relational query.
C3_DisabledNeverSearches ==
  ~ENABLE_FALLBACK => \A i \in 1..Len(calls) : calls[i].op = "query"

C3_Witness ==
  /\ ~ENABLE_FALLBACK /\ Done /\ req.handler = "compensations"
  /\ req.out.kind = "result" /\ Len(calls) = 2

\* C4: a failed relational query ends the request with that failure: it is the
\* last store call, the caller gets one error and no result.
C4_RelationalFailurePropagates ==
  \A i \in 1..Len(calls) :
     (calls[i].op = "query" /\ ~calls[i].ok) =>
        /\ i = Len(calls)
        /\ Done
        /\ req.out.kind = "error"
        /\ req.out.cause = "postgresql"

C4_Witness ==
  /\ Done /\ req.handler = "compensations" /\ Len(calls) = 3
  /\ calls[2].ok /\ ~calls[3].ok /\ req.out.kind = "error"

\* C5: every finished request has either a result whose source names the store
\* that produced it, or an error; no result lacks its source, also with
\* fallback disabled.
C5_ResultHasProvenance ==
  (Done /\ req.out.kind = "result") =>
     /\ req.out.source \in {Txt("elasticsearch"), Txt("postgresql")}
     /\ (req.out.source = Txt("elasticsearch")) = IsSearch(calls[Len(calls)])

\* A row request finished on the fallback path after its search threw, and the
\* same request (same resolver, same arguments) was last answered with
\* fallback disabled.
FellBackLikeBaseline ==
  /\ Done /\ ENABLE_FALLBACK /\ SearchFailed
  /\ req.handler \in {"queryWithFallback", "compensations"}
  /\ req.out.kind = "result"
  /\ baseline.handler = req.handler /\ baseline.args = req.args

\* C6: when the search store throws, a row request with fallback enabled
\* returns the rows the relational-only path (fallback disabled) returned for
\* the same arguments over the same table: the same keys in the same order, the
\* same total count, and its source is 'postgresql'.
C6_FallbackEqualsRelationalOnly ==
  FellBackLikeBaseline =>
     /\ Keys(req.out.rows) = Keys(baseline.out.rows)
     /\ req.out.totalCount = baseline.out.totalCount
     /\ req.out.source = Txt("postgresql")

C6_Witness ==
  /\ FellBackLikeBaseline
  /\ req.handler = "compensations" /\ Truthy(req.args.sort)
  /\ Len(req.out.rows) >= 2

\* The first store call is a search that completed without error and matched nothing.
CleanEmpty == ENABLE_FALLBACK /\ SearchAnswered /\ Matches = 0

\* The empty search response is what the caller gets; no relational query is made.
EmptyReturned ==
  /\ Done /\ Len(calls) = 1
  /\ req.out.kind = "result"
  /\ req.out.source = Txt("elasticsearch")
  /\ req.out.rows = <<>>

\* The request went on from its search call to the relational store.
WentOnToRelational ==
  /\ Len(calls) = 1 => req.pc = "secondary"
  /\ Len(calls) >= 2 => calls[2].op = "query" /\ calls[2].q = RelationalQueryOf(req)
  /\ (Done /\ req.out.kind = "result") =>
        /\ req.out.source = Txt("postgresql")
        /\ req.out.rows = calls[Len(calls)].resp.rows

\* C7 as stated: with fallback enabled, a search that completes without error
\* and matches nothing is returned as an empty result with source
\* 'elasticsearch' and no relational query; a relational query after a search
\* happens only when the search threw.
C7_CleanEmptyTrusted ==
  /\ CleanEmpty => EmptyReturned
  /\ (ENABLE_FALLBACK /\ Len(calls) >= 2 /\ calls[1].op = "search") => ~calls[1].ok

\* C7 amended: a clean search that matches nothing is returned as the empty
\* result with source 'elasticsearch' exactly by the compensations resolver
\* when hits.total is an object; queryWithFallback, and compensations when
\* hits.total is the number 0, go on to the relational query.
C7_CleanEmptyTrustedByListOnly ==
  CleanEmpty =>
     IF req.handler = "compensations" /\ calls[1].resp.hits.total.t = "obj"
     THEN EmptyReturned
     ELSE WentOnToRelational

C7_Witness ==
  /\ CleanEmpty /\ req.handler = "compensations"
  /\ calls[1].resp.hits.total.t = "obj"
  /\ Len(pgStore) >= 1 /\ req.args.filter = Undef
  /\ EmptyReturned

\* C8 as stated: whenever a search completes with no matching rows the router
\* executes the equivalent relational query and returns the relational result.
C8_EmptySearchFallsBack ==
  CleanEmpty => WentOnToRelational

\* C8 amended: queryWithFallback answers a search without hits by executing
\* its relational query and returning that result tagged 'postgresql';
\* compensations does so only when hits.total is the number 0.
C8_EmptySearchFallsBackInLookup ==
  (CleanEmpty /\ (req.handler = "queryWithFallback" \/ calls[1].resp.hits.total.t = "num"))
     => WentOnToRelational

C8_Witness ==
  /\ CleanEmpty /\ req.handler = "queryWithFallback"
  /\ Done /\ Len(calls) = 2
  /\ req.out.kind = "result" /\ Len(req.out.rows) = 1

\* The search store is called at most once per request, as its first store call.
SearchOnlyFirst == \A i \in 1..Len(calls) : IsSearch(calls[i]) => i = 1

\* C9 as stated: the search store is queried at most once and only before any
\* relational query, and the request ends at the first store call that
\* succeeds.
C9_TerminalOnFirstSuccess ==
  /\ SearchOnlyFirst
  /\ \A i \in 1..Len(calls) : calls[i].ok => (i = Len(calls) /\ Done)

\* C9 amended: the search store is queried at most once and only as the first
\* store call, every later call is relational and the request never returns to
\* the search store; the request ends at the first relational query that
\* succeeds, except that compensations follows its count query with the data
\* query.  A search response that succeeded ends the request only if the
\* handler accepted it.
C9_PrimaryThenSecondary ==
  /\ SearchOnlyFirst
  /\ Len(calls) <= 3
  /\ req.pc = "secondary" => (Len(calls) = 1 /\ IsSearch(calls[1]))
  /\ \A i \in 1..Len(calls) :
        (calls[i].op = "query" /\ calls[i].ok) =>
           \/ i = Len(calls) /\ Done /\ req.out.kind = "result"
           \/ /\ req.handler = "compensations" /\ calls[i].q.stmt = "count"
              /\ i = Len(calls) => req.pc = "data"
  /\ (Done /\ req.out.kind = "result") => calls[Len(calls)].ok

C9_Witness ==
  /\ Done /\ req.handler = "queryWithFallback"
  /\ Len(calls) = 2 /\ calls[1].op = "search" /\ calls[1].ok
  /\ calls[2].op = "query" /\ calls[2].ok

-----------------------------------------------------------------------------
(* Change capture: the trigger notify_compensation_change and the           *)
(* 'notification' handler that setupRealTimeStreaming registers.  The       *)
(* handler is an async function: it runs up to its await when a             *)
(* notification arrives and resumes when the search store answers, so the   *)
(* requests of several notifications can be awaiting at once.               *)

\* The largest number of notifications sent in one run.
MaxEvents == 3

\* The value the UPDATEs give to annual_base_pay.
UpdatedPay == {Num(21000000)}

\* The text pg_notify sends: json_build_object('operation', TG_OP,
\* 'id', COALESCE(NEW.id, OLD.id), 'data', row_to_json(NEW))::text.  A text is
\* kept as what it denotes, with wellFormed telling whether it is JSON at all.
TriggerPayload(operation, id, data) ==
  [wellFormed |-> TRUE,
   value |-> [operation |-> operation, id |-> id, data |-> data]]

\* A payload sent on the channel by someone else than the trigger.
ForeignPayload == [wellFormed |-> FALSE]

\* JSON.parse(msg.payload): the value, or a thrown SyntaxError
JsonParse(payload) ==
  IF payload.wellFormed THEN [ok |-> TRUE, value |-> payload.value]
  ELSE [ok |-> FALSE]

NoRequest == [op |-> "none"]

\* Variant of IndexRequest that sends the document without an id.
IndexRequest_NoId(payload) ==
  [op |-> "index", id |-> Undef, body |-> transformRecord(payload.data),
   refresh |-> "wait_for"]

\* Variant of IndexRequest that does not wait for the refresh.
IndexRequest_NoWait(payload) ==
  [op |-> "index", id |-> Num(payload.id), body |-> transformRecord(payload.data),
   refresh |-> "false"]

\* esClient.index({ index, id: payload.id, body: transformRecord(payload.data),
\* refresh: 'wait_for' })
IndexRequest(payload) ==
  [op |-> "index", id |-> Num(payload.id), body |-> transformRecord(payload.data),
   refresh |-> "wait_for"]

\* esClient.delete({ index, id: payload.id, refresh: 'wait_for' })
DeleteRequest(payload) ==
  [op |-> "delete", id |-> Num(payload.id), refresh |-> "wait_for"]

\* The handler from the parsed payload to its await: the request it sends.
HandlerRequest(payload) ==
  IF payload.operation = "INSERT" \/ payload.operation = "UPDATE"
  THEN IndexRequest(payload)
  ELSE IF payload.operation = "DELETE" THEN DeleteRequest(payload)
  ELSE NoRequest

\* Ids ElasticSearch assigns to documents indexed without one.
AutoIds == (MaxRows + 2)..(MaxRows + MaxEvents + 2)

Without(docs, id) == [i \in DOMAIN docs \ {id} |-> docs[i]]

\* The index API: the document replaces whatever is stored under the id; a
\* request without id stores the document under an id of the store's choosing.
EsIndex(docs, r) ==
  LET id == IF IsUndef(r.id) THEN CHOOSE k \in AutoIds : k \notin DOMAIN docs
            ELSE r.id.v
  IN (id :> r.body) @@ docs

\* The answer of the search store to a request that reached it: the new
\* content of the index and whether the client call resolved.  Deleting an id
\* that has no document is answered 404, which the client throws.
EsAnswer(docs, r) ==
  IF r.op = "index" THEN [docs |-> EsIndex(docs, r), outcome |-> "ok"]
  ELSE IF r.id.v \in DOMAIN docs
  THEN [docs |-> Without(docs, r.id.v), outcome |-> "ok"]
  ELSE [docs |-> docs, outcome |-> "not_found"]

RemoveAt(q, k) == SubSeq(q, 1, k - 1) \o SubSeq(q, k + 1, Len(q))

HasRow(id) == \E k \in 1..Len(pgStore) : pgStore[k].id = id

\* INSERT INTO compensation_data: the row trigger notifies with the new row.
PgInsert(id) ==
  /\ delivered < MaxEvents
  /\ ~HasRow(id)
  /\ pgStore' = Append(pgStore, RowOf(id))
  /\ channel' = Append(channel, TriggerPayload("INSERT", id, RowOf(id)))
  /\ delivered' = delivered + 1
  /\ UNCHANGED <<proc, routerVars, sync, esDocs, esVisible, inflight, lastEvent, handlerLog, unhandled>>

\* UPDATE compensation_data SET annual_base_pay = pay WHERE id = pgStore[k].id
PgUpdate(k, pay) ==
  /\ delivered < MaxEvents
  /\ k \in 1..Len(pgStore)
  /\ LET new == [pgStore[k] EXCEPT !.annual_base_pay = pay]
     IN /\ pgStore' = [pgStore EXCEPT ![k] = new]
        /\ channel' = Append(channel, TriggerPayload("UPDATE", new.id, new))
  /\ delivered' = delivered + 1
  /\ UNCHANGED <<proc, routerVars, sync, esDocs, esVisible, inflight, lastEvent, handlerLog, unhandled>>

\* DELETE FROM compensation_data WHERE id = pgStore[k].id: NEW is null
PgDelete(k) ==
  /\ delivered < MaxEvents
  /\ k \in 1..Len(pgStore)
  /\ pgStore' = RemoveAt(pgStore, k)
  /\ channel' = Append(channel, TriggerPayload("DELETE", pgStore[k].id, Null))
  /\ delivered' = delivered + 1
  /\ UNCHANGED <<proc, routerVars, sync, esDocs, esVisible, inflight, lastEvent, handlerLog, unhandled>>

\* NOTIFY compensation_data_change with a payload that is not JSON.
ForeignNotify ==
  /\ delivered < MaxEvents
  /\ channel' = Append(channel, ForeignPayload)
  /\ delivered' = delivered + 1
  /\ UNCHANGED <<proc, routerVars, sync, pgStore, esDocs, esVisible, inflight, lastEvent, handlerLog, unhandled>>

\* The channel delivers the notification it delivered last a second time.
Redeliver ==
  /\ delivered < MaxEvents
  /\ channel # <<>>
  /\ channel' = Append(channel, channel[Len(channel)])
  /\ delivered' = delivered + 1
  /\ UNCHANGED <<proc, routerVars, sync, pgStore, esDocs, esVisible, inflight, lastEvent, handlerLog, unhandled>>

\* What searches see once the store has answered a write: with refresh
\* 'wait_for' the answer is held back until a refresh has made the write
\* visible; with refresh false the write waits for the next refresh.
EsVisibleAfter(visible, docs, r) ==
  IF r.refresh = "wait_for" THEN docs ELSE visible

\* Variant of Caught in which the error leaves the handler.
Caught_Rethrow(log) == [handlerLog |-> log + 1, unhandled |-> TRUE]

\* The handler's catch block: logger.error('Failed to process real-time
\* update:', error); the error goes no further.
Caught(log) == [handlerLog |-> log + 1, unhandled |-> FALSE]

\* listenClient.on('notification', ...) up to the await: parse, transform and
\* send the request; a payload that does not parse is logged and dropped.
\* The emitter does not wait for the handler's promise, so the handler of the
\* next notification may start while this one's request is awaited.
OnNotification ==
  /\ ~unhandled
  /\ channel # <<>>
  /\ LET parsed == JsonParse(Head(channel))
         r == IF parsed.ok THEN HandlerRequest(parsed.value) ELSE NoRequest
         c == Caught(handlerLog)
     IN /\ inflight' = IF r = NoRequest THEN inflight
                       ELSE Append(inflight, [request |-> r, msg |-> Head(channel)])
        /\ handlerLog' = IF parsed.ok THEN handlerLog ELSE c.handlerLog
        /\ unhandled' = IF parsed.ok THEN unhandled ELSE c.unhandled
  /\ channel' = Tail(channel)
  /\ UNCHANGED <<proc, routerVars, sync, pgStore, esDocs, esVisible, delivered, lastEvent>>

\* The search store answers one of the awaited requests and the handler
\* resumes: logger.debug after a resolved call, logger.error in the catch.
\* reached is FALSE when the request fails before the store applies it.
OnResponse(k, reached) ==
  /\ ~unhandled
  /\ k \in 1..Len(inflight)
  /\ LET w == inflight[k]
         a == IF reached THEN EsAnswer(esDocs, w.request)
              ELSE [docs |-> esDocs, outcome |-> "error"]
         c == Caught(handlerLog)
     IN /\ esDocs' = a.docs
        /\ esVisible' = IF a.outcome = "ok"
                        THEN EsVisibleAfter(esVisible, a.docs, w.request)
                        ELSE esVisible
        /\ handlerLog' = IF a.outcome = "ok" THEN handlerLog ELSE c.handlerLog
        /\ unhandled' = IF a.outcome = "ok" THEN unhandled ELSE c.unhandled
        /\ lastEvent' = [msg |-> w.msg, outcome |-> a.outcome,
                         repeat |-> /\ lastEvent.outcome \in {"ok", "not_found"}
                                    /\ lastEvent.msg = w.msg
                                    /\ reached,
                         changed |-> a.docs # esDocs,
                         present |-> /\ ~IsUndef(w.request.id)
                                     /\ w.request.id.v \in DOMAIN esDocs,
                         failuresBefore |-> handlerLog,
                         overtook |-> \E j \in 1..(k - 1) :
                                         inflight[j].request.id = w.request.id]
  /\ inflight' = RemoveAt(inflight, k)
  /\ UNCHANGED <<proc, routerVars, sync, pgStore, channel, delivered>>

\* Change capture starts listening after the bulk synchronization: the index
\* holds the documents of the table, or nothing where the windows failed.
InitCapture ==
  /\ ENABLE_FALLBACK = TRUE
  /\ req = IdleReq
  /\ calls = <<>>
  /\ baseline = [handler |-> "none", args |-> Undef, out |-> NoOut]
  /\ \E n \in 0..MaxRows :
       /\ pgStore = Table(n)
       /\ esDocs \in {IndexOf(Table(n)), IndexOf(Table(0))}
  /\ esVisible = esDocs
  /\ channel = <<>>
  /\ inflight = <<>>
  /\ delivered = 0
  /\ lastEvent = NoEvent
  /\ handlerLog = 0
  /\ unhandled = FALSE
  /\ sync = SyncOver(DOMAIN esDocs)
  /\ proc = ProcUp

NextCapture ==
  \/ \E id \in 1..MaxRows : PgInsert(id)
  \/ \E k \in 1..MaxRows, pay \in UpdatedPay : PgUpdate(k, pay)
  \/ \E k \in 1..MaxRows : PgDelete(k)
  \/ ForeignNotify
  \/ Redeliver
  \/ OnNotification
  \/ \E k \in 1..MaxEvents, reached \in BOOLEAN : OnResponse(k, reached)

SpecCapture == InitCapture /\ [][NextCapture]_vars

-----------------------------------------------------------------------------
(* Properties of change capture, checked under SpecCapture *)

\* C10: when the search store applies the request of a notification and the
\* request it applied just before came from the same notification (the event
\* was delivered twice), the second application leaves the index as the first
\* left it, for inserts, updates and deletes alike.
C10_RedeliveryIdempotent ==
  lastEvent.repeat => ~lastEvent.changed

C10_Witness ==
  /\ lastEvent.repeat
  /\ lastEvent.outcome = "ok"
  /\ lastEvent.msg.value.operation = "INSERT"
  /\ lastEvent.msg.value.id \in DOMAIN esDocs
  /\ esDocs[lastEvent.msg.value.id] = transformRecord(lastEvent.msg.value.data)

\* The event of the notification whose request the store answered last.
LastChange == lastEvent.msg.value

\* C11 as stated: change-capture writes are serialized: at most one request of
\* the handler is awaiting its answer at any time, and no request is answered
\* by the store while an earlier request for the same key is still awaiting.
C11_WritesSerialized ==
  /\ Len(inflight) <= 1
  /\ ~lastEvent.overtook

\* C12: after the store has answered the write of an insert or update
\* notification with success, the index holds under the event's key exactly
\* the transform of the row snapshot in the payload, whatever was there
\* before, and that document is visible to searches by the time the handler
\* resumes.
C12_UpsertHoldsTransform ==
  (lastEvent.outcome = "ok" /\ LastChange.operation \in {"INSERT", "UPDATE"}) =>
     /\ LastChange.id \in DOMAIN esDocs
     /\ esDocs[LastChange.id] = transformRecord(LastChange.data)
     /\ LastChange.id \in DOMAIN esVisible
     /\ esVisible[LastChange.id] = esDocs[LastChange.id]

C12_Witness ==
  /\ lastEvent.outcome = "ok" /\ LastChange.operation = "UPDATE"
  /\ lastEvent.present /\ lastEvent.changed
  /\ esVisible[LastChange.id].compensation_range = Txt("Executive Level")

\* C13 as stated: a delete notification for a key that has no document, once
\* the store has answered it, has completed as a success (no error in the
\* handler) and has left the index unchanged.
C13_DeleteMissingSucceeds ==
  (/\ lastEvent.outcome \in {"ok", "not_found"}
   /\ LastChange.operation = "DELETE"
   /\ ~lastEvent.present) =>
     /\ lastEvent.outcome = "ok"
     /\ ~lastEvent.changed

CurrentRow(id) == PgById(pgStore, id)

\* C15 (bulk synchronization and change capture on one key): when the last
\* change-capture write on a key that a bulk window also wrote has been
\* answered, no notification is waiting, no write is in flight and none has
\* failed, the index holds under the key the transform of the row the table
\* holds now, and holds nothing when the row is gone.
C15_BulkAndCaptureConverge ==
  (/\ channel = <<>> /\ inflight = <<>> /\ handlerLog = 0
   /\ lastEvent.outcome = "ok"
   /\ LastChange.id \in sync.written) =>
     LET k == LastChange.id
         row == CurrentRow(k)
     IN IF row = <<>> THEN k \notin DOMAIN esDocs
        ELSE /\ k \in DOMAIN esDocs
             /\ esDocs[k] \in {transformRecord(row[1]), transformRecord(PgDriverRow(row[1]))}


-----------------------------------------------------------------------------
(* Bulk synchronization: streamDataToElasticSearch, one action for each     *)
(* await of the function.  sync.windows, sync.counted, sync.refreshed and   *)
(* sync.written record what the run has done so far.                        *)

SyncStart ==
  [pc |-> "count", totalRecords |-> 0, offset |-> 0, processedRecords |-> 0,
   failedRecords |-> 0, records |-> <<>>, retries |-> 0, windows |-> <<>>,
   counted |-> 0, refreshed |-> 0, written |-> {}, verified |-> 0,
   verifyLog |-> NoLog]

\* The window being written: the last entry of the history.
NoteAttempt(windows, reached, rejected, givenUp) ==
  LET n == Len(windows)
      w == windows[n]
  IN [windows EXCEPT ![n] = [w EXCEPT !.attempts = w.attempts + 1,
                                      !.thrown = w.thrown + (IF reached THEN 0 ELSE 1),
                                      !.rejected = rejected,
                                      !.givenUp = givenUp]]

\* The run waited ms after a failed attempt on the window being written.
NoteWait(windows, ms) ==
  [windows EXCEPT ![Len(windows)].waits = Append(@, ms)]

\* The run waited ms once the retry loop of the window was left.
NotePause(windows, ms) ==
  [windows EXCEPT ![Len(windows)].pause = ms]

\* const countResult = await pool.query(countQuery); an empty table ends the
\* run at once, a failing query is rethrown by the function's catch.
SyncCount(up) ==
  /\ sync.pc = "count"
  /\ sync' =
       IF ~up THEN [sync EXCEPT !.pc = "threw"]
       ELSE LET totalRecords == parseInt(CountQuery(pgStore)[1].count)
            IN [sync EXCEPT !.totalRecords = totalRecords,
                            !.counted = sync.counted + 1,
                            !.pc = IF totalRecords = 0 THEN "done" ELSE "window"]
  /\ UNCHANGED <<proc, routerVars, pgStore, captureVars>>

\* const result = await pool.query(query, [BATCH_SIZE, offset]);
\* if (records.length === 0) break;
SyncReadWindow(up) ==
  /\ sync.pc = "window"
  /\ sync' =
       IF ~up THEN [sync EXCEPT !.pc = "threw"]
       ELSE LET records == WindowQuery(pgStore, BATCH_SIZE, sync.offset)
            IN IF Len(records) = 0
               THEN [sync EXCEPT !.pc = "refresh"]
               ELSE [sync EXCEPT !.pc = "bulk",
                                 !.records = records,
                                 !.retries = 0,
                                 !.windows = Append(sync.windows,
                                    [offset |-> sync.offset, size |-> Len(records),
                                     attempts |-> 0, thrown |-> 0, rejected |-> {},
                                     givenUp |-> FALSE, waits |-> <<>>, pause |-> 0])]
  /\ UNCHANGED <<proc, routerVars, pgStore, captureVars>>

\* One turn of while (retries < MAX_RETRIES && !success): esClient.bulk with
\* refresh: false either throws (reached = FALSE) or answers, with the items
\* at the positions in rejected carrying an error.  A throw that leaves
\* retries to spare is followed by the backoff wait.  When the loop is left
\* the offset advances, the run pauses and the outer loop's test is taken.
SyncBulk(reached, rejected) ==
  /\ sync.pc = "bulk"
  /\ rejected \subseteq 1..Len(sync.records)
  /\ reached \/ rejected = {}
  /\ LET ops == BulkOps(sync.records)
         response == BulkResponse(ops, rejected)
         retries == sync.retries + 1
         offset == NextOffset(sync.offset)
     IN IF reached
        THEN /\ esDocs' = EsBulk(esDocs, ops, rejected)
             /\ sync' = [sync EXCEPT
                  !.failedRecords = sync.failedRecords + ErrorCount(response),
                  !.processedRecords = sync.processedRecords + Len(sync.records),
                  !.written = sync.written \cup
                                {ops[k]._id : k \in (1..Len(ops)) \ rejected},
                  !.windows = NotePause(NoteAttempt(sync.windows, TRUE,
                                                    {ops[k]._id : k \in rejected}, FALSE),
                                        BatchPauseMs),
                  !.offset = offset,
                  !.pc = LoopPc(offset, sync.totalRecords)]
        ELSE /\ esDocs' = esDocs
             /\ sync' =
                  IF Exhausted(retries)
                  THEN [sync EXCEPT
                          !.retries = retries,
                          !.failedRecords = sync.failedRecords + Len(sync.records),
                          !.windows = NotePause(NoteAttempt(sync.windows, FALSE, {}, TRUE),
                                                BatchPauseMs),
                          !.offset = offset,
                          !.pc = GiveUpPc(offset, sync.totalRecords)]
                  ELSE [sync EXCEPT
                          !.retries = retries,
                          !.windows = NoteWait(NoteAttempt(sync.windows, FALSE, {}, FALSE),
                                               BackoffMs(retries))]
  /\ UNCHANGED <<proc, routerVars, pgStore, esVisible, channel, inflight, delivered,
                 lastEvent, handlerLog, unhandled>>

\* await esClient.indices.refresh({ index: INDEX_NAME })
SyncRefresh(up) ==
  /\ sync.pc = "refresh"
  /\ sync' = IF up THEN [sync EXCEPT !.pc = "verify", !.refreshed = sync.refreshed + 1]
             ELSE [sync EXCEPT !.pc = "threw"]
  /\ esVisible' = IF up THEN esDocs ELSE esVisible
  /\ UNCHANGED <<proc, routerVars, pgStore, esDocs, channel, inflight, delivered,
                 lastEvent, handlerLog, unhandled>>

\* The answer of esClient.count({ index }): the documents searches see.
EsCount(visible) == [count |-> Cardinality(DOMAIN visible)]

\* const esCountResponse = await esClient.count({ index: INDEX_NAME }), then
\* the log line; a failing count is rethrown by the function's catch.
SyncVerify(up) ==
  /\ sync.pc = "verify"
  /\ sync' = IF up
             THEN LET esCountResponse == EsCount(esVisible)
                  IN [sync EXCEPT !.pc = "done",
                                  !.verified = esCountResponse.count,
                                  !.verifyLog = VerifyLog(esCountResponse, sync.totalRecords)]
             ELSE [sync EXCEPT !.pc = "threw"]
  /\ UNCHANGED <<proc, routerVars, pgStore, captureVars>>

\* The streamer starts on a table of up to MaxSyncRows rows.  The index
\* compensation_data is new, or is the one an earlier run filled when the
\* table had one row more: setupElasticSearchIndex keeps an existing index.
InitSync ==
  /\ ENABLE_FALLBACK = TRUE
  /\ req = IdleReq
  /\ calls = <<>>
  /\ baseline = [handler |-> "none", args |-> Undef, out |-> NoOut]
  /\ \E n \in 0..MaxSyncRows :
       /\ pgStore = Table(n)
       /\ esDocs \in {IndexOf(Table(0)), IndexOf(Table(n + 1))}
  /\ esVisible = esDocs
  /\ channel = <<>>
  /\ inflight = <<>>
  /\ delivered = 0
  /\ lastEvent = NoEvent
  /\ handlerLog = 0
  /\ unhandled = FALSE
  /\ sync = SyncStart
  /\ proc = ProcUp

NextSync ==
  \/ \E up \in BOOLEAN : SyncCount(up)
  \/ \E up \in BOOLEAN : SyncReadWindow(up)
  \/ \E reached \in BOOLEAN, rejected \in SUBSET (1..BATCH_SIZE) :
       SyncBulk(reached, rejected)
  \/ \E up \in BOOLEAN : SyncRefresh(up)
  \/ \E up \in BOOLEAN : SyncVerify(up)

SpecSync == InitSync /\ [][NextSync]_vars

\* The run ends: every step that is enabled is eventually taken.
FairSync == SpecSync /\ WF_vars(NextSync)

-----------------------------------------------------------------------------
(* Properties of the bulk synchronization, checked under SpecSync *)

\* The window the run is writing or wrote last.
Window(k) == sync.windows[k]
ThisWindow == Window(Len(sync.windows))

\* ceil(n / w)
CeilDiv(n, w) == (n + w - 1) \div w

\* C16 (retry bound): a window whose bulk write throws on every attempt is
\* attempted exactly MAX_RETRIES (3) times; on the last of them the failed
\* count grows by the number of rows of the window and the run moves on to
\* the next offset without raising.  A window is given up in no other case.
C16_RetryBound ==
  /\ [](\A k \in 1..Len(sync.windows) :
          /\ Window(k).givenUp <=> Window(k).thrown = MAX_RETRIES
          /\ Window(k).thrown <= MAX_RETRIES
          /\ (Window(k).thrown = Window(k).attempts /\ ~Window(k).givenUp)
                => (k = Len(sync.windows) /\ sync.pc = "bulk"))
  /\ [][(sync.pc = "bulk" /\ sync'.windows[Len(sync.windows)].givenUp) =>
          /\ sync'.windows[Len(sync.windows)].attempts = MAX_RETRIES
          /\ sync'.windows[Len(sync.windows)].thrown = MAX_RETRIES
          /\ sync'.failedRecords = sync.failedRecords + ThisWindow.size
          /\ sync'.processedRecords = sync.processedRecords
          /\ sync'.offset = sync.offset + BATCH_SIZE
          /\ sync'.pc \in {"window", "refresh"}]_vars

\* A window was given up and the run went on to write a later one.
C16_Witness ==
  \E k \in 1..Len(sync.windows) :
     /\ Window(k).givenUp
     /\ Window(k).size = BATCH_SIZE
     /\ k < Len(sync.windows)
     /\ sync.failedRecords >= BATCH_SIZE
     /\ sync.pc = "done"

\* C17 (a failed window never halts the run): whatever the bulk writes do,
\* no step of the window's write raises, the run reaches the final refresh
\* (or stops on a failing relational read), and at the refresh every window
\* of the table has been attempted.
C17_FailedWindowNeverHalts ==
  /\ [][sync.pc = "bulk" => sync'.pc # "threw"]_vars
  /\ [](sync.pc = "bulk" => <>(sync.pc \in {"refresh", "threw"}))
  /\ [](sync.pc = "refresh" =>
          /\ Len(sync.windows) = CeilDiv(sync.totalRecords, BATCH_SIZE)
          /\ \A k \in 1..Len(sync.windows) : Window(k).attempts >= 1)
  /\ [](sync.pc \in {"refresh", "verify"} => <>(sync.pc \in {"done", "threw"}))

\* The run ended with its refresh although every window was given up.
C17_Witness ==
  /\ sync.pc = "done"
  /\ sync.refreshed = 1
  /\ Len(sync.windows) = 3
  /\ \A k \in 1..Len(sync.windows) : Window(k).givenUp

\* C18 (windows): over a table of N rows that does not change, the row count
\* is read once, window k is read at offset (k - 1) * W and holds W rows, or
\* the N - (k - 1) * W rows that are left, and when the loop is left
\* ceil(N / W) windows have been read.
C18_WindowsCoverTable ==
  LET N == Len(pgStore)
      W == BATCH_SIZE
  IN /\ sync.counted <= 1
     /\ sync.counted = 1 => sync.totalRecords = N
     /\ \A k \in 1..Len(sync.windows) :
          /\ Window(k).offset = (k - 1) * W
          /\ Window(k).size = Min2(W, N - (k - 1) * W)
          /\ Window(k).size >= 1
     /\ sync.pc \in {"refresh", "verify", "done"} =>
          /\ sync.counted = 1
          /\ Len(sync.windows) = CeilDiv(N, W)

\* Five rows in windows of two: two full windows and a last one of one row.
C18_Witness ==
  /\ sync.pc = "done"
  /\ Len(pgStore) = 2 * BATCH_SIZE + 1
  /\ Len(sync.windows) = 3
  /\ Window(1).size = BATCH_SIZE /\ Window(2).size = BATCH_SIZE /\ Window(3).size = 1
  /\ Window(3).offset = 2 * BATCH_SIZE

\* No bulk write threw and no item was rejected.
NoFailure ==
  \A k \in 1..Len(sync.windows) : Window(k).thrown = 0 /\ Window(k).rejected = {}

\* C19 (bulk completeness): once the run is over without any failure, the
\* search index holds as many documents as the table has rows.
C19_CountEqualsRows ==
  (sync.pc = "done" /\ sync.counted = 1 /\ NoFailure) =>
     /\ Cardinality(DOMAIN esDocs) = Len(pgStore)
     /\ (sync.refreshed = 1 => sync.verified = Len(pgStore))

\* C20 (partial bulk failure): a bulk write that is answered with errors on
\* some items is not repeated and does not end the window's processing: the
\* failed count grows by the number of rejected items, every other document
\* of the window is in the index, and the run moves on to the next offset.
C20_PartialFailureCounted ==
  [][(sync.pc = "bulk" /\ sync'.windows[Len(sync.windows)].rejected # {}) =>
       LET w == sync'.windows[Len(sync.windows)]
       IN /\ sync'.failedRecords = sync.failedRecords + Cardinality(w.rejected)
          /\ w.attempts = ThisWindow.attempts + 1
          /\ sync'.pc \in {"window", "refresh"}
          /\ sync'.offset = sync.offset + BATCH_SIZE
          /\ ~w.givenUp
          /\ \A k \in 1..Len(sync.records) :
               sync.records[k].id \notin w.rejected =>
                 /\ sync.records[k].id \in DOMAIN esDocs'
                 /\ esDocs'[sync.records[k].id] = transformRecord(sync.records[k])
          /\ \A i \in w.rejected :
               IF i \in DOMAIN esDocs THEN i \in DOMAIN esDocs' /\ esDocs'[i] = esDocs[i]
               ELSE i \notin DOMAIN esDocs']_vars

\* One item of a window of two was rejected, the other is in the index, and
\* the run went on to a later window.
C20_Witness ==
  \E k \in 1..Len(sync.windows) :
     /\ k < Len(sync.windows)
     /\ Window(k).attempts = 1
     /\ Cardinality(Window(k).rejected) = 1
     /\ Window(k).size = 2
     /\ sync.failedRecords = 1
     /\ Cardinality(sync.written) >= 1
     /\ sync.pc = "done"

-----------------------------------------------------------------------------
(* The bulk synchronization over a table that other sessions change *)

\* DELETE FROM compensation_data WHERE id = pgStore[k].id, committed between
\* two windows of the run.  Nobody listens on the channel yet: LISTEN is
\* issued by setupRealTimeStreaming, after the run.
DeleteDuringSync(k) ==
  /\ sync.pc = "window"
  /\ delivered < MaxEvents
  /\ k \in 1..Len(pgStore)
  /\ pgStore' = RemoveAt(pgStore, k)
  /\ delivered' = delivered + 1
  /\ UNCHANGED <<proc, routerVars, sync, esDocs, esVisible, channel, inflight, lastEvent,
                 handlerLog, unhandled>>

NextSyncLive ==
  \/ NextSync
  \/ \E k \in 1..MaxSyncRows : DeleteDuringSync(k)

SpecSyncLive == InitSync /\ [][NextSyncLive]_vars

\* C21 (a short window ends the iteration): once a window has returned fewer
\* rows than the window size, the run reads no further window from the
\* relational store, whatever the offset and the total counted at the start.
C21_ShortWindowEndsIteration ==
  [][(Len(sync.windows) > 0 /\ ThisWindow.size < BATCH_SIZE) =>
       ~(sync.pc = "window" /\ sync' # sync)]_vars

-----------------------------------------------------------------------------
(* The translators on their own: the compensations resolver up to its first *)
(* await, over every request of TranslatorFilters x TranslatorSorts x       *)
(* TranslatorPaginations.                                                   *)

\* One slot of a filter with a value a caller may give it.
SlotValues ==
  {<<"industry", Txt("Tech")>>,
   <<"gender", Txt("Female")>>,
   <<"gender", Txt("female")>>,
   <<"annualBasePay", Obj([min |-> Num(4000000)])>>,
   <<"annualBasePay", Obj([max |-> Num(9500000)])>>,
   <<"annualBasePay", Obj([min |-> Num(4000000), max |-> Num(9500000)])>>,
   <<"yearsExperienceIndustry", Obj([min |-> Num(2)])>>,
   <<"timestampAfter", Num(2)>>,
   <<"timestampBefore", Num(2)>>,
   <<"healthInsuranceOffered", Bool(TRUE)>>,
   <<"healthInsuranceOffered", Bool(FALSE)>>,
   <<"dataQualityScoreMin", Num(1)>>,
   <<"locationContains", Txt("san")>>}

FilterOf(S) ==
  Obj([slot \in FilterSlots |->
         IF \E o \in S : o[1] = slot THEN (CHOOSE o \in S : o[1] = slot)[2] ELSE Undef])

\* No filter, the empty filter, the filters with one slot set, and those
\* with the industry and one other slot.
TranslatorFilters ==
  {Undef, FilterOf({})} \cup
  {FilterOf({a}) : a \in SlotValues} \cup
  {FilterOf({<<"industry", Txt("Tech")>>, a}) : a \in {b \in SlotValues : b[1] # "industry"}}

\* The fields buildOrderByClause names, which are the members of the schema's
\* enum CompensationSortField.
SortAllowList ==
  {"TIMESTAMP", "ANNUAL_BASE_PAY", "ANNUAL_BONUS", "YEARS_EXPERIENCE_INDUSTRY",
   "YEARS_EXPERIENCE_COMPANY", "CREATED_AT"}

\* With two fields of the API documentation's SortField that it does not name.
SortFields == SortAllowList \cup {"EMPLOYER", "TOTAL_COMPENSATION"}

SortItems == {[field |-> f, direction |-> d] : f \in SortFields, d \in {"ASC", "DESC"}}

\* No sort, the empty list, every single item, and some lists of two items.
TranslatorSorts ==
  {Undef, Arr(<<>>)} \cup
  {Arr(<<i>>) : i \in SortItems} \cup
  {Arr(<<[field |-> "TIMESTAMP", direction |-> d], i>>) :
     d \in {"ASC"}, i \in {j \in SortItems : j.field \in {"ANNUAL_BONUS", "EMPLOYER"}}}

\* No pagination, and the pairs of a limit and an offset either of which may
\* be missing.
TranslatorPaginations ==
  {Undef} \cup
  {Obj([limit |-> l, offset |-> o]) :
     l \in {Undef, Num(0), Num(1), Num(100), Num(101), Num(1000), Num(0 - 1)},
     o \in {Undef, Num(0), Num(5)}}

InitTranslator ==
  /\ ENABLE_FALLBACK = TRUE
  /\ \E n \in 0..MaxRows :
       /\ pgStore = Table(n)
       /\ esDocs = IndexOf(Table(n))
       /\ esVisible = IndexOf(Table(n))
  /\ req = IdleReq
  /\ calls = <<>>
  /\ baseline = [handler |-> "none", args |-> Undef, out |-> NoOut]
  /\ channel = <<>>
  /\ inflight = <<>>
  /\ delivered = 0
  /\ lastEvent = NoEvent
  /\ handlerLog = 0
  /\ unhandled = FALSE
  /\ sync = SyncOver(DOMAIN esDocs)
  /\ proc = ProcUp

NextTranslator ==
  /\ req.pc = "idle"
  /\ \E filter \in TranslatorFilters, sort \in TranslatorSorts,
        pagination \in TranslatorPaginations :
          Compensations(filter, sort, pagination)

SpecTranslator == InitTranslator /\ [][NextTranslator]_vars

-----------------------------------------------------------------------------
(* Properties of the translators, checked under SpecTranslator *)

Translated == req.handler = "compensations" /\ req.pc = "entry"

\* The filter has none of the fuzzy-text slots.
NonFuzzy(filter) ==
  \/ ~Truthy(filter)
  \/ /\ ~Truthy(filter.v.employer)
     /\ ~Truthy(filter.v.jobTitleContains)
     /\ ~Truthy(filter.v.locationContains)

\* The column an index field stands for.
EsColumn(field) == IF field = "industry.keyword" THEN "industry" ELSE field

\* What a statement and a search query constrain: the column, the kind of
\* bound and the value.
SqlConstraints(q) ==
  {[col |-> q.conditions[k].col,
    bound |-> IF q.conditions[k].op \in {">=", "<="} THEN q.conditions[k].op ELSE "=",
    value |-> q.params[q.conditions[k].idx]] : k \in 1..Len(q.conditions)}

EsConstraints(query) ==
  UNION {LET c == query.must[k]
         IN CASE c.kind = "term" ->
                   {[col |-> EsColumn(c.field), bound |-> "=", value |-> c.value]}
              [] c.kind = "range" ->
                   {[col |-> c.field, bound |-> ">=", value |-> c.gte] : x \in
                        IF IsUndef(c.gte) THEN {} ELSE {1}} \cup
                   {[col |-> c.field, bound |-> "<=", value |-> c.lte] : x \in
                        IF IsUndef(c.lte) THEN {} ELSE {1}}
              [] OTHER ->
                   {[col |-> c.field, bound |-> "~", value |-> c.query]}
           : k \in 1..Len(query.must)}

\* A term or range clause on a document: a term on a keyword field matches
\* the exact value, a range a number inside the bounds.
EsClause(doc, c) ==
  LET x == doc[EsColumn(c.field)]
  IN CASE c.kind = "term" -> x.t = c.value.t /\ x.t = "txt" /\ x.v = c.value.v
       [] c.kind = "range" ->
            /\ x.t \in {"num", "txt"}
            /\ (IsUndef(c.gte) \/ JsToNumber(x) >= c.gte.v)
            /\ (IsUndef(c.lte) \/ JsToNumber(x) <= c.lte.v)
       [] OTHER -> TRUE

EsKeys(docs, query) ==
  {i \in DOMAIN docs : \A k \in 1..Len(query.must) : EsClause(docs[i], query.must[k])}

PgKeys(store, q) ==
  LET rows == PgFilter(store, q) IN {rows[k].id : k \in 1..Len(rows)}

\* C22 (equivalence of the filter translations): for a filter without
\* fuzzy-text slots the statement's WHERE clause and the search query
\* constrain the same columns with the same bounds and values, and select the
\* same keys from the table and from its index.
C22_TranslationsAgree ==
  (Translated /\ NonFuzzy(req.args.filter)) =>
     /\ SqlConstraints(req.pgQuery) = EsConstraints(req.esQuery.body.query)
     /\ PgKeys(pgStore, req.pgQuery) = EsKeys(esDocs, req.esQuery.body.query)

\* C23 (equivalence of the sort translations): the ORDER BY clause and the
\* search query's sort have the same length and name, position by position,
\* the same field in the same direction.
C23_SortsAgree ==
  Translated =>
     LET orderBy == req.dataQuery.orderBy
         sort == req.esQuery.body.sort
     IN /\ Len(sort) = Len(orderBy)
        /\ \A k \in 1..Len(orderBy) :
             /\ sort[k].field = orderBy[k].field
             /\ sort[k].order = ToLowerCase(orderBy[k].direction)

\* C24 (sort allow-list): in both translations a sort item whose field is
\* not in the allow-list becomes the default order, created_at descending.
C24_UnknownSortDefaults ==
  (Translated /\ Truthy(req.args.sort) /\ Truthy(req.args.filter)) =>
     \A k \in 1..Len(req.args.sort.v) :
        req.args.sort.v[k].field \notin SortAllowList =>
          /\ req.dataQuery.orderBy[k] = [field |-> "created_at", direction |-> "DESC"]
          /\ req.esQuery.body.sort[k] = [field |-> "created_at", order |-> "desc"]

\* C25 (pagination): the LIMIT parameter of the data statement equals the
\* search query's size and is at most 100, and the OFFSET parameter equals
\* the search query's from.
C25_PaginationAgrees ==
  Translated =>
     LET q == req.dataQuery
     IN /\ q.params[q.limitIdx] = Num(req.esQuery.body.size)
        /\ q.params[q.limitIdx].v <= 100
        /\ q.params[q.offsetIdx] = Num(req.esQuery.body.from)
        /\ req.limit = req.esQuery.body.size
        /\ req.offset = req.esQuery.body.from

\* A caller asks for 1000 rows from offset 5 and gets the ceiling in both.
C25_Witness ==
  /\ Translated
  /\ req.args.pagination = Obj([limit |-> Num(1000), offset |-> Num(5)])
  /\ req.esQuery.body.size = 100
  /\ req.dataQuery.params[req.dataQuery.limitIdx] = Num(100)
  /\ req.esQuery.body.from = 5
  /\ Truthy(req.args.filter)

-----------------------------------------------------------------------------
(* Properties of the aggregate path, checked under SpecRouter *)

\* C26 (aggregate requests): an aggregation the search store completed
\* without error is what the caller gets, tagged 'elasticsearch', and no
\* relational statement is issued for the request; a relational statement is
\* issued only with the fallback flag disabled or after a failed aggregation.
C26_AggregateFromSearch ==
  req.handler = "aggregateWithFallback" =>
     /\ (Len(calls) >= 1 /\ calls[1].op = "aggregate" /\ calls[1].ok) =>
          /\ req.pc \in {"done"}
          /\ req.out.kind = "result"
          /\ req.out.source = Txt("elasticsearch")
          /\ \A k \in 1..Len(calls) : calls[k].op # "query"
     /\ \A k \in 1..Len(calls) :
          calls[k].op = "query" => (~ENABLE_FALLBACK \/ SearchFailed)

-----------------------------------------------------------------------------
(* Statistics resolvers: compensationStats after aggregateWithFallback has  *)
(* returned, and locationStats.  Amounts in whole currency units are kept   *)
(* to two decimals, as [whole, frac]: 108333.33 is [whole |-> 108333,       *)
(* frac |-> 33].                                                            *)

\* cents / 100
Dollars(cents) == [whole |-> cents \div CentsPerDollar, frac |-> cents % CentsPerDollar]

\* Math.round(dollars * 100)
RoundCents(d) == d.whole * CentsPerDollar + d.frac

\* let stats: from result.aggregations when the result is tagged
\* 'elasticsearch', else result.rows[0].
StatsRecord(result) ==
  IF result.source = Txt("elasticsearch") /\ Truthy(result.aggregations)
  THEN LET salaryStats == result.aggregations.v.stats
           expStats == result.aggregations.v.experience_stats
       IN [count |-> Num(salaryStats.count),
           average_salary |-> Dollars(salaryStats.avg),
           min_salary |-> Dollars(salaryStats.min),
           max_salary |-> Dollars(salaryStats.max),
           median_salary |-> Dollars(salaryStats.avg),
           q1_salary |-> Dollars(salaryStats.avg),
           q3_salary |-> Dollars(salaryStats.avg),
           standard_deviation |-> Dollars(salaryStats.std_deviation),
           average_experience |-> expStats.avg,
           min_experience |-> expStats.min,
           max_experience |-> expStats.max,
           median_experience |-> expStats.avg]
  ELSE result.rows[1]

\* The object compensationStats returns.
StatsValue(stats) ==
  [count |-> IF stats.count.t = "txt" THEN parseInt(stats.count) ELSE stats.count.v,
   averageSalary |-> stats.average_salary,
   medianSalary |-> stats.median_salary,
   minSalary |-> RoundCents(stats.min_salary),
   maxSalary |-> RoundCents(stats.max_salary),
   q1Salary |-> stats.q1_salary,
   q3Salary |-> stats.q3_salary,
   standardDeviation |-> stats.standard_deviation,
   averageExperience |-> stats.average_experience,
   medianExperience |-> stats.median_experience,
   minExperience |-> stats.min_experience,
   maxExperience |-> stats.max_experience]

\* The extended_stats of the two fields as the search store reports them
\* (amounts in cents), tagged the way aggregateWithFallback tags them.
SearchStatsResults ==
  {[source |-> Txt("elasticsearch"),
    aggregations |-> Obj([stats |-> [count |-> n, avg |-> a, min |-> lo, max |-> hi,
                                     std_deviation |-> d],
                          experience_stats |-> [avg |-> 3, min |-> 1, max |-> 12]])] :
     n \in {1, 3}, a \in {9500000, 10833333}, lo \in {4000000, 9500000},
     hi \in {9500000, 12000000}, d \in {0, 1027402}}

\* The row of the relational aggregate statement, tagged 'postgresql' by the
\* fallback or untagged when the fallback is disabled.
RelationalStatsResults ==
  {[source |-> src,
    rows |-> <<[count |-> Txt(NumToStr(n)),
                average_salary |-> Dollars(a),
                min_salary |-> Dollars(lo),
                max_salary |-> Dollars(hi),
                median_salary |-> Dollars(m),
                q1_salary |-> Dollars(q),
                q3_salary |-> Dollars(m),
                standard_deviation |-> Dollars(0),
                average_experience |-> 3, min_experience |-> 1,
                max_experience |-> 12, median_experience |-> 3]>>] :
     src \in {Txt("postgresql"), Undef}, n \in {1, 3}, a \in {9500000, 10833333},
     lo \in {9500000}, hi \in {9500000, 12000000}, m \in {9500000, 11000000},
     q \in {9500000, 10250000}}

\* compensationStats from the return of aggregateWithFallback on.
CompensationStatsReturn(result) ==
  /\ req.pc = "idle"
  /\ req' = [IdleReq EXCEPT
       !.handler = "compensationStats", !.pc = "done",
       !.args = [result |-> result],
       !.out = [kind |-> "stats", stats |-> StatsRecord(result),
                value |-> StatsValue(StatsRecord(result))]]
  /\ calls' = <<>>
  /\ UNCHANGED <<proc, ENABLE_FALLBACK, pgStore, baseline, captureVars, sync>>

\* WHERE ... location IS NOT NULL AND annual_base_pay IS NOT NULL AND annual_base_pay > 0
InLocationStats(row) ==
  /\ ~IsNull(row.location)
  /\ row.annual_base_pay.t = "num"
  /\ row.annual_base_pay.v > 0

RECURSIVE SumPay(_, _)
SumPay(rows, I) ==
  IF I = {} THEN 0
  ELSE LET i == CHOOSE j \in I : TRUE
       IN rows[i].annual_base_pay.v + SumPay(rows, I \ {i})

\* The base pays of the rows at the indices I, ascending.
SortedPay(rows, I) ==
  LET Rank(i) == Cardinality({j \in I :
                   \/ rows[j].annual_base_pay.v < rows[i].annual_base_pay.v
                   \/ (rows[j].annual_base_pay.v = rows[i].annual_base_pay.v /\ j < i)})
  IN [k \in 1..Cardinality(I) |->
        rows[CHOOSE i \in I : Rank(i) = k - 1].annual_base_pay.v]

\* PERCENTILE_CONT(0.5) WITHIN GROUP (ORDER BY ...)
MedianPay(rows, I) ==
  LET v == SortedPay(rows, I)
      n == Len(v)
  IN IF n % 2 = 1 THEN v[(n + 1) \div 2] ELSE (v[n \div 2] + v[n \div 2 + 1]) \div 2

\* AVG(annual_base_pay::DECIMAL / 100), in cents
AveragePay_Median(rows, I) == MedianPay(rows, I)

AveragePay(rows, I) == SumPay(rows, I) \div Cardinality(I)

\* The statement of locationStats: one row for each location of three rows or
\* more, highest average first (equal averages in the order of their first
\* rows), at most limit rows; a negative LIMIT is rejected.
PgLocationStats(store, q, limit) ==
  LET rows == SelectSeq(PgFilter(store, q), InLocationStats)
      At(l) == {k \in 1..Len(rows) : rows[k].location = l}
      groups == {l \in {rows[k].location : k \in 1..Len(rows)} : Cardinality(At(l)) >= 3}
      First(l) == CHOOSE k \in At(l) : \A j \in At(l) : k <= j
      Rank(l) == Cardinality({m \in groups :
                   \/ AveragePay(rows, At(m)) > AveragePay(rows, At(l))
                   \/ (AveragePay(rows, At(m)) = AveragePay(rows, At(l)) /\ First(m) < First(l))})
      Row(l) == [location |-> l,
                 count |-> Txt(NumToStr(Cardinality(At(l)))),
                 average_salary |-> Dollars(AveragePay(rows, At(l))),
                 min_salary |-> Dollars(SortedPay(rows, At(l))[1]),
                 max_salary |-> Dollars(SortedPay(rows, At(l))[Cardinality(At(l))]),
                 median_salary |-> Dollars(MedianPay(rows, At(l)))]
      ordered == [k \in 1..Cardinality(groups) |-> Row(CHOOSE l \in groups : Rank(l) = k - 1)]
  IN IF limit < 0 THEN [ok |-> FALSE, rows |-> <<>>]
     ELSE [ok |-> TRUE, rows |-> SubSeq(ordered, 1, Min2(limit, Len(ordered)))]

\* result.rows.map(row => ({ location, count: parseInt(row.count), ... }))
LocationStatsValue(row) ==
  [location |-> row.location,
   count |-> parseInt(row.count),
   averageSalary |-> row.average_salary,
   medianSalary |-> row.median_salary,
   minSalary |-> RoundCents(row.min_salary),
   maxSalary |-> RoundCents(row.max_salary)]

\* The default of the resolver's limit argument.
DefaultStatsLimit == 10

\* resolvers.Query.locationStats up to its await
LocationStats(filter, limit) ==
  /\ req.pc = "idle"
  /\ LET w == buildWhereClause(filter)
     IN req' = [IdleReq EXCEPT
          !.handler = "locationStats", !.pc = "entry",
          !.args = [filter |-> filter, limit |-> limit],
          !.pgQuery = [stmt |-> "location_stats", conditions |-> w.conditions,
                       params |-> Append(w.params, Num(limit))],
          !.limit = limit]
  /\ calls' = <<>>
  /\ UNCHANGED <<proc, ENABLE_FALLBACK, pgStore, baseline, captureVars, sync>>

\* locationStats after query(pgQuery, [...params, limit]): the mapped rows, or
\* 'Failed to fetch location statistics'.
LocationStatsQuery ==
  /\ req.handler = "locationStats" /\ req.pc = "entry"
  /\ \E up \in BOOLEAN :
       LET r == PgLocationStats(pgStore, req.pgQuery, req.limit)
           ok == up /\ r.ok
       IN /\ calls' = Append(calls, Call("query", ok, req.pgQuery, r))
          /\ req' = [req EXCEPT !.pc = "done",
                       !.out = IF ok
                               THEN [kind |-> "locations",
                                     value |-> SeqMap(LocationStatsValue, r.rows)]
                               ELSE Thrown("postgresql")]
  /\ UNCHANGED <<proc, ENABLE_FALLBACK, pgStore, baseline, captureVars, sync>>

\* Tables for the statistics: up to three San Francisco rows with base pay
\* 12000000, 11000000 and 9500000 cents, followed by up to MaxRows rows of
\* Austin.
SanFranciscoPay == <<12000000, 11000000, 9500000>>

StatsTable(k, j) ==
  [i \in 1..(k + j) |->
     IF i <= k
     THEN [RowOf(i) EXCEPT !.location = Txt("San Francisco"),
                           !.annual_base_pay = Num(SanFranciscoPay[i])]
     ELSE [RowOf(i) EXCEPT !.location = Txt("Austin"),
                           !.annual_base_pay = Pick(i, <<Num(15000000), Num(4000000), Null>>)]]

StatsFilters ==
  {Undef, Obj([EmptyFilter EXCEPT !.annualBasePay = Obj([min |-> Num(10000000)])])}

StatsLimits == {DefaultStatsLimit, 1, 0 - 1}

InitStats ==
  /\ ENABLE_FALLBACK = TRUE
  /\ \E k \in 0..3, j \in 0..MaxRows :
       /\ pgStore = StatsTable(k, j)
       /\ esDocs = IndexOf(StatsTable(k, j))
  /\ esVisible = esDocs
  /\ req = IdleReq
  /\ calls = <<>>
  /\ baseline = [handler |-> "none", args |-> Undef, out |-> NoOut]
  /\ channel = <<>>
  /\ inflight = <<>>
  /\ delivered = 0
  /\ lastEvent = NoEvent
  /\ handlerLog = 0
  /\ unhandled = FALSE
  /\ sync = SyncOver(DOMAIN esDocs)
  /\ proc = ProcUp

NextStats ==
  \/ \E result \in SearchStatsResults \cup RelationalStatsResults :
       CompensationStatsReturn(result)
  \/ \E filter \in StatsFilters, limit \in StatsLimits : LocationStats(filter, limit)
  \/ LocationStatsQuery

SpecStats == InitStats /\ [][NextStats]_vars

-----------------------------------------------------------------------------
(* Properties of the statistics resolvers, checked under SpecStats *)

\* The fields of a statistics record that the record marks as approximate.
Approximate(stats) ==
  IF "approximate" \in DOMAIN stats THEN stats.approximate ELSE {}

ThreeInSanFrancisco ==
  LET I == {k \in 1..Len(pgStore) : pgStore[k].location = Txt("San Francisco")}
  IN /\ Cardinality(I) = 3
     /\ {pgStore[k].annual_base_pay : k \in I} = {Num(12000000), Num(11000000), Num(9500000)}

\* locationStats answered from the relational store, for no filter.
LocationsAnswered ==
  /\ req.handler = "locationStats" /\ req.pc = "done"
  /\ req.out.kind = "locations"
  /\ req.args.filter = Undef

SanFranciscoStats ==
  {req.out.value[k] : k \in {j \in 1..Len(req.out.value) :
                               req.out.value[j].location = Txt("San Francisco")}}

\* C28 as stated: locationStats reports count = 3 and averageSalary =
\* 110833.33 for San Francisco.
C28_LocationAverageAsStated ==
  (LocationsAnswered /\ ThreeInSanFrancisco) =>
     /\ req.limit = DefaultStatsLimit => SanFranciscoStats # {}
     /\ \A r \in SanFranciscoStats :
          r.count = 3 /\ r.averageSalary = [whole |-> 110833, frac |-> 33]

\* C28 (location average): over a table whose San Francisco rows are the
\* three rows with base pay 12000000, 11000000 and 9500000 cents,
\* locationStats reports for San Francisco count = 3 and averageSalary =
\* 108333.33, the mean of 120000, 110000 and 95000 to two decimals.
C28_LocationAverage ==
  (LocationsAnswered /\ ThreeInSanFrancisco) =>
     /\ req.limit = DefaultStatsLimit => SanFranciscoStats # {}
     /\ \A r \in SanFranciscoStats :
          r.count = 3 /\ r.averageSalary = [whole |-> 108333, frac |-> 33]

\* The scenario's table with a second location of three rows, answered with
\* the default limit.
C28_Witness ==
  /\ LocationsAnswered /\ ThreeInSanFrancisco
  /\ req.limit = DefaultStatsLimit
  /\ Len(pgStore) > 3
  /\ \E r \in SanFranciscoStats : r.count = 3 /\ r.minSalary = 9500000

-----------------------------------------------------------------------------
(* The streamer from start to steady state: startStreaming runs the bulk    *)
(* synchronization and, once it has returned, the change capture.  The      *)
(* table has at most one row, whose base pay is then updated to amounts on  *)
(* either side of the bracket thresholds.                                   *)

\* Base pays that, with the row's bonus of 1000000 cents, give totals of
\* 49999.99, 50000, 99999.99, 100000, 199999.99 and 200000 currency units.
BracketPays ==
  {Num(3999999), Num(4000000), Num(8999999), Num(9000000), Num(18999999), Num(19000000)}

InitStreamer ==
  /\ ENABLE_FALLBACK = TRUE
  /\ req = IdleReq
  /\ calls = <<>>
  /\ baseline = [handler |-> "none", args |-> Undef, out |-> NoOut]
  /\ pgStore \in {Table(0), Table(1)}
  /\ esDocs = IndexOf(Table(0))
  /\ esVisible = esDocs
  /\ channel = <<>>
  /\ inflight = <<>>
  /\ delivered = 0
  /\ lastEvent = NoEvent
  /\ handlerLog = 0
  /\ unhandled = FALSE
  /\ sync = SyncStart
  /\ proc = ProcUp

NextStreamer ==
  \/ NextSync
  \/ /\ sync.pc = "done"
     /\ \/ \E pay \in BracketPays : PgUpdate(1, pay)
        \/ OnNotification
        \/ \E k \in 1..MaxEvents, reached \in BOOLEAN : OnResponse(k, reached)

SpecStreamer == InitStreamer /\ [][NextStreamer]_vars

-----------------------------------------------------------------------------
(* Properties of the record transformer *)

\* The number a column of a document stands for, NULL counting as zero.
Amount(x) == IF IsNull(x) THEN 0 ELSE JsToNumber(x)

\* C29 (total compensation), checked under SpecSync: every document a bulk
\* window wrote has total_compensation equal to the sum, in cents, of its
\* base pay, bonus and stock value, a missing one counting as zero and the
\* signing bonus not counting.
C29_TotalIsSum ==
  \A i \in sync.written :
     i \in DOMAIN esDocs =>
       esDocs[i].total_compensation =
         Num(Amount(esDocs[i].annual_base_pay) + Amount(esDocs[i].annual_bonus)
               + Amount(esDocs[i].stock_value))

\* The bracket of a total in cents, with the labels given.
Bracket(cents, labels) ==
  IF cents < 50000 * 100 THEN labels[1]
  ELSE IF cents < 100000 * 100 THEN labels[2]
  ELSE IF cents < 200000 * 100 THEN labels[3]
  ELSE labels[4]

\* C30 as stated, checked under SpecStreamer: the bracket of every document
\* is "Entry", "Mid", "Senior" or "Executive" by its total_compensation in
\* whole currency units, with thresholds 50,000, 100,000 and 200,000 that
\* belong to the higher bracket.
C30_BracketAsStated ==
  \A i \in DOMAIN esDocs :
     esDocs[i].compensation_range =
       Txt(Bracket(JsToNumber(esDocs[i].total_compensation),
                   <<"Entry", "Mid", "Senior", "Executive">>))

\* C30 (compensation bracket), checked under SpecStreamer: the bracket of
\* every document is "Entry Level", "Mid Level", "Senior Level" or
\* "Executive Level" by its total_compensation in whole currency units:
\* below 50,000, below 100,000, below 200,000, otherwise; a total on a
\* threshold is in the higher bracket.
C30_BracketByThreshold ==
  \A i \in DOMAIN esDocs :
     esDocs[i].compensation_range =
       Txt(Bracket(JsToNumber(esDocs[i].total_compensation),
                   <<"Entry Level", "Mid Level", "Senior Level", "Executive Level">>))

\* Change capture has written a document whose total is exactly 100,000
\* currency units, which is in the third bracket.
C30_Witness ==
  /\ lastEvent.outcome = "ok"
  /\ 1 \in DOMAIN esDocs
  /\ esDocs[1].total_compensation = Num(10000000)
  /\ esDocs[1].compensation_range = Txt("Senior Level")

-----------------------------------------------------------------------------
(* The streamer over a table that other sessions change while the bulk      *)
(* synchronization runs.  startStreaming awaits streamDataToElasticSearch   *)
(* before setupRealTimeStreaming creates the trigger and issues LISTEN, so  *)
(* a change committed before that reaches no handler.                       *)

\* UPDATE compensation_data SET annual_base_pay = pay WHERE id = pgStore[k].id,
\* committed after the run has read a window and before LISTEN.
UpdateBeforeListen(k, pay) ==
  /\ sync.pc \in {"bulk", "window", "refresh", "verify"}
  /\ Len(sync.windows) > 0
  /\ delivered < MaxEvents
  /\ k \in 1..Len(pgStore)
  /\ pgStore' = [pgStore EXCEPT ![k].annual_base_pay = pay]
  /\ delivered' = delivered + 1
  /\ UNCHANGED <<proc, routerVars, sync, esDocs, esVisible, channel, inflight, lastEvent,
                 handlerLog, unhandled>>

\* The value the UPDATEs committed before LISTEN give to annual_base_pay.
EarlyPay == {Num(15000000)}

\* After LISTEN the row is updated to the one value of UpdatedPay, so that the
\* order in which the writes of several notifications are answered does not
\* show in the index.
NextStreamerLive ==
  \/ NextSync
  \/ \E pay \in EarlyPay : UpdateBeforeListen(1, pay)
  \/ /\ sync.pc = "done"
     /\ \/ \E pay \in UpdatedPay : PgUpdate(1, pay)
        \/ OnNotification
        \/ \E k \in 1..MaxEvents, reached \in BOOLEAN : OnResponse(k, reached)

SpecStreamerLive == InitStreamer /\ [][NextStreamerLive]_vars

\* The bulk synchronization and the change capture have nothing left to do
\* and nothing failed in either.
Quiet ==
  /\ sync.pc = "done"
  /\ NoFailure
  /\ channel = <<>>
  /\ inflight = <<>>
  /\ handlerLog = 0
  /\ ~unhandled

\* C31 (convergence), checked under SpecStreamerLive: once the bulk
\* synchronization is over, every notification has been handled and nothing
\* failed, the index holds one document for each row of the table and none
\* besides, each with the base pay its row has now; this includes rows
\* changed between the reading of their window and the start of listening.
C31_ConvergesWhenQuiet ==
  Quiet =>
    /\ DOMAIN esDocs = {pgStore[k].id : k \in 1..Len(pgStore)}
    /\ \A k \in 1..Len(pgStore) :
         Amount(esDocs[pgStore[k].id].annual_base_pay) = Amount(pgStore[k].annual_base_pay)

-----------------------------------------------------------------------------
(* Properties of the report of the bulk synchronization, under SpecSync *)

\* The number of rows the window queries of the run have returned.
RECURSIVE RowsRead(_)
RowsRead(windows) ==
  IF windows = <<>> THEN 0
  ELSE Head(windows).size + RowsRead(Tail(windows))

\* C32 (each row counted once): when the run is over, the processed count and
\* the failed count add up to the number of rows read across all windows,
\* also when the search store rejected some documents of a bulk write: a
\* rejected document counts as failed and not as processed.
C32_EachRowCountedOnce ==
  sync.pc = "done" =>
    sync.processedRecords + sync.failedRecords = RowsRead(sync.windows)

\* The bulk write of window k has been answered, or has thrown MAX_RETRIES
\* times.
Settled(w) == w.attempts > w.thrown \/ w.thrown = MAX_RETRIES

\* C33 (one window at a time): the run has one bulk write outstanding at
\* most, that of the window it read last, and every window read before that
\* one has been answered or has used up its retries; a window is read only
\* when all windows read so far are settled.
C33_WindowsOneAtATime ==
  /\ [](\A k \in 1..Len(sync.windows) :
          (k < Len(sync.windows) \/ sync.pc # "bulk") => Settled(Window(k)))
  /\ [](sync.pc = "bulk" =>
          /\ ~Settled(ThisWindow)
          /\ ThisWindow.offset = sync.offset
          /\ ThisWindow.size = Len(sync.records))
  /\ [][Len(sync'.windows) > Len(sync.windows) =>
          /\ sync.pc = "window"
          /\ Len(sync'.windows) = Len(sync.windows) + 1
          /\ \A k \in 1..Len(sync.windows) : Settled(Window(k))]_vars

\* The first window threw twice and was answered on its third attempt, and
\* only then was the second window read.
C33_Witness ==
  /\ Len(sync.windows) = 2
  /\ Window(1).thrown = 2 /\ Window(1).attempts = 3 /\ ~Window(1).givenUp
  /\ sync.pc = "bulk"
  /\ Window(2).attempts = 1 /\ Window(2).thrown = 1

\* The run has left the window loop after reading at least one window.
PastWindows == sync.pc \in {"verify", "done"} /\ Len(sync.windows) > 0

\* The index is refreshed once, after the window loop and before the count
\* is read, and a count that was read ends the run without raising.
RefreshThenCount ==
  /\ [](sync.pc \in {"count", "window", "bulk", "refresh"} => sync.refreshed = 0)
  /\ [](PastWindows => sync.refreshed = 1)
  /\ [](sync.verifyLog # NoLog => sync.refreshed = 1 /\ sync.pc = "done")
  /\ [][(sync.pc = "verify" /\ sync'.verifyLog # NoLog) => sync'.pc = "done"]_vars

\* C34 (refresh, then verify): after the last window the run refreshes the
\* index exactly once, reads the document count only after that refresh and
\* compares it with the total counted at the start; a count that differs
\* from the total is logged as such, that is otherwise than the same count is
\* logged when it equals the total, and does not make the run fail.
C34_RefreshThenVerify ==
  /\ RefreshThenCount
  /\ []((sync.pc = "done" /\ sync.verifyLog # NoLog /\ sync.verified # sync.totalRecords) =>
          sync.verifyLog # VerifyLog([count |-> sync.verified], sync.verified))

\* The waits between the attempts of a window that threw n times:
\* 1000 ms after the first failed attempt, 2000 ms after the second, none
\* after attempt MAX_RETRIES.
StatedWaits(n) == [j \in 1..Min2(n, MAX_RETRIES - 1) |-> j * 1000]

\* C35 as stated: between failed attempts of a window the run waits the base
\* delay times the attempt number, and after the final failed attempt it
\* moves on to the next window without waiting at all.
C35_BackoffAsStated ==
  \A k \in 1..Len(sync.windows) :
     /\ Window(k).waits = StatedWaits(Window(k).thrown)
     /\ Window(k).givenUp => Window(k).pause = 0

\* C35 (backoff): between failed attempts of a window the run waits the base
\* delay times the attempt number, 1000 ms after the first failed attempt
\* and 2000 ms after the second; after the final failed attempt there is no
\* backoff wait, only the pause of 100 ms that ends every turn of the window
\* loop, after an answered window as after one given up.
C35_Backoff ==
  \A k \in 1..Len(sync.windows) :
     /\ Window(k).waits = StatedWaits(Window(k).thrown)
     /\ Window(k).pause = IF Settled(Window(k)) THEN BatchPauseMs ELSE 0

\* A window was given up after waits of 1000 and 2000 ms and a window that
\* threw once was answered on its second attempt.
C35_Witness ==
  \E k, j \in 1..Len(sync.windows) :
     /\ Window(k).givenUp
     /\ Window(k).waits = <<1000, 2000>>
     /\ Window(k).pause = 100
     /\ Window(j).attempts = 2 /\ Window(j).thrown = 1
     /\ Window(j).waits = <<1000>>
     /\ sync.pc = "done"

-----------------------------------------------------------------------------
(* Startup of the streamer: startStreaming, one action for each await up to *)
(* the bulk synchronization, the bulk synchronization itself (NextSync),    *)
(* and one action for each await of setupRealTimeStreaming.  proc.ran is    *)
(* the sequence of the steps started, proc.failedAt the step that threw.    *)

\* The process before startStreaming's first await has answered.  index
\* tells whether the index compensation_data exists in the search store.
\* The last fields are those of the shutdown: the signal received, the
\* signal handlers that are running, the calls of pool.end() and of the
\* search client's close(), and whether pool and client are closed.
ProcStart(index) ==
  [step |-> "connect", ran |-> <<"connect">>, index |-> index, created |-> 0,
   failedAt |-> "none", code |-> 0, handler |-> FALSE, captureLog |-> 0,
   running |-> FALSE,
   kind |-> "streamer", signal |-> "none", handlers |-> <<>>, endCalls |-> 0,
   poolEnded |-> FALSE, closeCalls |-> 0, esClosed |-> FALSE]

\* The process moves on to its next await.
Enter(p, step) == [p EXCEPT !.step = step, !.ran = Append(p.ran, step)]

\* catch (error) { logger.error('Failed to start streaming service:', error);
\* process.exit(1); }
Fatal(p) == [p EXCEPT !.step = "exited", !.failedAt = p.step, !.code = 1]

\* Variant of SetupNeedsCreate that never creates the index.
SetupNeedsCreate_Never(indexExists) == FALSE

\* if (indexExists) { ...; return; }
SetupNeedsCreate(indexExists) == ~indexExists

\* bulk synchronization before streamDataToElasticSearch is called
SyncIdle == [SyncStart EXCEPT !.pc = "idle"]

\* await pool.query('SELECT 1')
CheckPostgres(up) ==
  /\ proc.step = "connect"
  /\ proc' = IF up THEN Enter(proc, "ping") ELSE Fatal(proc)
  /\ UNCHANGED <<routerVars, pgStore, captureVars, sync>>

\* await esClient.ping()
PingSearch(up) ==
  /\ proc.step = "ping"
  /\ proc' = IF up THEN Enter(proc, "exists") ELSE Fatal(proc)
  /\ UNCHANGED <<routerVars, pgStore, captureVars, sync>>

\* setupElasticSearchIndex: await esClient.indices.exists({ index }); with an
\* existing index the function returns and streamDataToElasticSearch is
\* called; an error is logged, rethrown and caught by startStreaming.
IndexExists(up) ==
  /\ proc.step = "exists"
  /\ LET indexExists == proc.index = "present"
     IN IF ~up THEN proc' = Fatal(proc) /\ sync' = sync
        ELSE IF SetupNeedsCreate(indexExists)
        THEN proc' = Enter(proc, "create") /\ sync' = sync
        ELSE proc' = Enter(proc, "stream") /\ sync' = SyncStart
  /\ UNCHANGED <<routerVars, pgStore, captureVars>>

\* setupElasticSearchIndex: await esClient.indices.create({ index, body:
\* mapping }); the search store refuses to create an index that exists.
IndexCreate(up) ==
  /\ proc.step = "create"
  /\ IF up /\ proc.index = "absent"
     THEN /\ proc' = [Enter(proc, "stream") EXCEPT !.index = "present",
                                                   !.created = proc.created + 1]
          /\ sync' = SyncStart
     ELSE /\ proc' = Fatal(proc)
          /\ sync' = sync
  /\ UNCHANGED <<routerVars, pgStore, captureVars>>

\* streamDataToElasticSearch has thrown: startStreaming's catch
StreamFailed ==
  /\ proc.step = "stream"
  /\ sync.pc = "threw"
  /\ proc' = Fatal(proc)
  /\ UNCHANGED <<routerVars, pgStore, captureVars, sync>>

\* The awaits of setupRealTimeStreaming, in order.
CaptureSteps == <<"pool_connect", "create_function", "create_trigger", "listen">>

\* Variant of CaptureCaught in which the error leaves setupRealTimeStreaming.
CaptureCaught_Rethrow(p) == Fatal(p)

\* setupRealTimeStreaming: catch (error) { logger.error('Failed to setup
\* real-time streaming:', error); }, after which startStreaming logs that the
\* service is running and starts its health check.
CaptureCaught(p) ==
  [p EXCEPT !.failedAt = p.step, !.captureLog = p.captureLog + 1,
            !.step = "running", !.running = TRUE]

\* streamDataToElasticSearch has returned: setupRealTimeStreaming is called
\* and awaits pool.connect()
CaptureStart ==
  /\ proc.step = "stream"
  /\ sync.pc = "done"
  /\ proc' = Enter(proc, CaptureSteps[1])
  /\ UNCHANGED <<routerVars, pgStore, captureVars, sync>>

\* One await of setupRealTimeStreaming is answered.  After LISTEN the
\* notification handler is registered and the function returns.
CaptureStep(k, up) ==
  /\ k \in 1..Len(CaptureSteps)
  /\ proc.step = CaptureSteps[k]
  /\ proc' = IF ~up THEN CaptureCaught(proc)
             ELSE IF k < Len(CaptureSteps) THEN Enter(proc, CaptureSteps[k + 1])
             ELSE [proc EXCEPT !.step = "running", !.handler = TRUE, !.running = TRUE]
  /\ UNCHANGED <<routerVars, pgStore, captureVars, sync>>

\* The streamer starts on a table of up to MaxRows rows.  The index is
\* absent, or exists and is empty, or holds what an earlier run wrote when
\* the table had one row more.
InitStartup ==
  /\ ENABLE_FALLBACK = TRUE
  /\ req = IdleReq
  /\ calls = <<>>
  /\ baseline = [handler |-> "none", args |-> Undef, out |-> NoOut]
  /\ \E n \in 0..MaxRows, index \in {"absent", "present"} :
       /\ pgStore = Table(n)
       /\ esDocs \in IF index = "absent" THEN {IndexOf(Table(0))}
                    ELSE {IndexOf(Table(0)), IndexOf(Table(n + 1))}
       /\ proc = ProcStart(index)
  /\ esVisible = esDocs
  /\ channel = <<>>
  /\ inflight = <<>>
  /\ delivered = 0
  /\ lastEvent = NoEvent
  /\ handlerLog = 0
  /\ unhandled = FALSE
  /\ sync = SyncIdle

NextStartup ==
  \/ \E up \in BOOLEAN : CheckPostgres(up)
  \/ \E up \in BOOLEAN : PingSearch(up)
  \/ \E up \in BOOLEAN : IndexExists(up)
  \/ \E up \in BOOLEAN : IndexCreate(up)
  \/ NextSync
  \/ StreamFailed
  \/ CaptureStart
  \/ \E k \in 1..Len(CaptureSteps), up \in BOOLEAN : CaptureStep(k, up)

SpecStartup == InitStartup /\ [][NextStartup]_vars

-----------------------------------------------------------------------------
(* Properties of the startup, checked under SpecStartup *)

\* The steps of the startup in the order the claim gives them.
StartupOrder ==
  <<"connect", "ping", "exists", "create", "stream">> \o CaptureSteps

Rank(step) == CHOOSE i \in 1..Len(StartupOrder) : StartupOrder[i] = step

Ran(step) == \E i \in 1..Len(proc.ran) : proc.ran[i] = step

\* The steps a failure of which is fatal.
FatalSteps == {"connect", "ping", "exists", "create", "stream"}

\* C36 (startup order): the steps run in the order connection checks, index
\* confirmed or created, bulk synchronization, change capture, none twice
\* and none before the ones it follows have succeeded; the bulk
\* synchronization starts only when the index exists; an index that exists
\* is not created again and loses no document to the startup; a failure of
\* a connection check, of the index setup or of the bulk synchronization
\* ends the process with exit code 1, with no later step started.
C36_StartupOrder ==
  /\ [](/\ \A i, j \in 1..Len(proc.ran) :
             i < j => Rank(proc.ran[i]) < Rank(proc.ran[j])
        /\ Ran("stream") => Ran("connect") /\ Ran("ping") /\ Ran("exists")
        /\ Ran(CaptureSteps[1]) => Ran("stream") /\ sync.pc = "done"
        /\ ~Ran("stream") <=> sync = SyncIdle)
  /\ [](Ran("stream") => proc.index = "present")
  /\ []((proc.index = "present" /\ proc.created = 0) => ~Ran("create"))
  /\ [][proc.index = "present" =>
          /\ proc'.index = "present"
          /\ proc'.created = proc.created
          /\ DOMAIN esDocs \subseteq DOMAIN esDocs']_vars
  /\ [][(proc.step \in FatalSteps /\ proc'.failedAt # "none") =>
          /\ proc'.step = "exited"
          /\ proc'.code = 1
          /\ proc'.failedAt = proc.step
          /\ proc'.ran = proc.ran
          /\ ~proc'.running]_vars
  /\ [](sync.pc = "threw" => ~Ran(CaptureSteps[1]))
  /\ [](proc.step = "exited" => ~ENABLED NextStartup)

\* The index was absent and was created, the bulk synchronization started
\* and threw, and the process exited with code 1 before change capture.
C36_Witness ==
  /\ proc.step = "exited"
  /\ proc.failedAt = "stream"
  /\ proc.code = 1
  /\ proc.created = 1
  /\ proc.ran = <<"connect", "ping", "exists", "create", "stream">>
  /\ Len(sync.windows) >= 1

\* The process is at one of the awaits of setupRealTimeStreaming.
InCaptureSetup == \E k \in 1..Len(CaptureSteps) : proc.step = CaptureSteps[k]

\* C37 (change-capture setup failure): a failure of pool.connect(), of either
\* trigger statement or of LISTEN is logged inside setupRealTimeStreaming and
\* goes no further: the process does not exit, startStreaming reports the
\* service as running, and no notification handler is registered.  A handler
\* is registered only when all four awaits have succeeded.
C37_CaptureSetupFailureSwallowed ==
  /\ [][(InCaptureSetup /\ proc'.failedAt # "none") =>
          /\ proc'.failedAt = proc.step
          /\ proc'.captureLog = proc.captureLog + 1
          /\ proc'.step = "running"
          /\ proc'.running
          /\ proc'.code = 0
          /\ ~proc'.handler]_vars
  /\ [](proc.handler => proc.failedAt = "none" /\ Ran("listen") /\ proc.running)
  /\ [](proc.running => proc.step = "running" /\ proc.code = 0)

\* The trigger could not be installed: the service runs without a handler.
C37_Witness ==
  /\ proc.step = "running"
  /\ proc.running
  /\ proc.failedAt = "create_trigger"
  /\ proc.captureLog = 1
  /\ ~proc.handler
  /\ sync.pc = "done"

-----------------------------------------------------------------------------
(* Shutdown on SIGINT or SIGTERM.  The streamer registers one handler for   *)
(* each signal when its module is loaded, before startStreaming is called.  *)
(* The API server loads the connection module, which registers a handler    *)
(* for each signal, and registers its own once it listens; process.emit     *)
(* calls the handlers of a signal in the order they were registered, each   *)
(* up to its first await.  pool.end() on a pool that is already ending      *)
(* returns a rejected promise ('Called end on pool more than once').        *)

Signals == {"SIGINT", "SIGTERM"}

\* The handlers of a signal in the order of their registration.
HandlersOf(kind) ==
  IF kind = "server" THEN <<"connection", "server">> ELSE <<"streamer">>

\* The API server once startServer has registered its handlers.
ProcServer ==
  [ProcStart("present") EXCEPT !.kind = "server", !.step = "running",
                               !.ran = <<>>, !.running = TRUE]

\* process.exit(code)
Exit(p, code) == [p EXCEPT !.step = "exited", !.code = code, !.running = FALSE]

\* The promise pool.end() returns to its k-th caller.
PoolEnd(k) == IF k = 1 THEN "end_pending" ELSE "end_rejected"

\* The signal arrives: every handler logs and calls pool.end(), the server's
\* through gracefulShutdown and the connection module's through
\* closeDatabase, and awaits it.
OnSignal(sig) ==
  /\ proc.step # "exited"
  /\ proc.signal = "none"
  /\ LET names == HandlersOf(proc.kind)
     IN proc' = [proc EXCEPT
                   !.signal = sig,
                   !.handlers = [k \in 1..Len(names) |->
                                   [name |-> names[k], pc |-> PoolEnd(proc.endCalls + k)]],
                   !.endCalls = proc.endCalls + Len(names)]
  /\ UNCHANGED <<routerVars, pgStore, captureVars, sync>>

\* The pool has closed its clients: the promise of the first pool.end()
\* resolves.
PoolDrained ==
  /\ proc.step # "exited"
  /\ proc.endCalls >= 1
  /\ ~proc.poolEnded
  /\ proc' = [proc EXCEPT !.poolEnded = TRUE]
  /\ UNCHANGED <<routerVars, pgStore, captureVars, sync>>

\* The handler's await of pool.end() is over.  The connection module's
\* handler exits with 0 after closeDatabase, and with closeDatabase rethrowing
\* its error leaves an unhandled rejection, on which the server exits with 1.
\* gracefulShutdown goes on to client.close(), and its catch exits with 1; the
\* streamer's handler goes on to esClient.close().
AfterPoolEnd(p, k, resolved) ==
  LET h == p.handlers[k]
  IN IF h.name = "connection"
     THEN Exit(p, IF resolved THEN 0 ELSE 1)
     ELSE IF resolved
     THEN [p EXCEPT !.handlers[k].pc = "close_pending",
                    !.closeCalls = p.closeCalls + 1]
     ELSE Exit(p, 1)

\* Handler k resumes after an await: after pool.end(), or after the close of
\* the search client, which is followed by process.exit(0).
HandlerResumes(k) ==
  /\ proc.step # "exited"
  /\ k \in 1..Len(proc.handlers)
  /\ LET h == proc.handlers[k]
     IN \/ /\ h.pc = "end_pending"
           /\ proc.poolEnded
           /\ proc' = AfterPoolEnd(proc, k, TRUE)
        \/ /\ h.pc = "end_rejected"
           /\ proc' = AfterPoolEnd(proc, k, FALSE)
        \/ /\ h.pc = "close_pending"
           /\ proc' = Exit([proc EXCEPT !.esClosed = TRUE], 0)
  /\ UNCHANGED <<routerVars, pgStore, captureVars, sync>>

\* The streamer at the start of startStreaming on a table of at most one
\* row, or the API server up and listening.
InitShutdown ==
  /\ ENABLE_FALLBACK = TRUE
  /\ req = IdleReq
  /\ calls = <<>>
  /\ baseline = [handler |-> "none", args |-> Undef, out |-> NoOut]
  /\ \E n \in 0..1 : pgStore = Table(n)
  /\ esDocs = IndexOf(Table(0))
  /\ esVisible = esDocs
  /\ channel = <<>>
  /\ inflight = <<>>
  /\ delivered = 0
  /\ lastEvent = NoEvent
  /\ handlerLog = 0
  /\ unhandled = FALSE
  /\ \/ \E index \in {"absent", "present"} : proc = ProcStart(index) /\ sync = SyncIdle
     \/ proc = ProcServer /\ sync = SyncOver(DOMAIN esDocs)

\* The startup goes on while the handlers of the signal run, until one of
\* them exits.
NextShutdown ==
  \/ proc.step # "exited" /\ NextStartup
  \/ \E sig \in Signals : OnSignal(sig)
  \/ PoolDrained
  \/ \E k \in 1..2 : HandlerResumes(k)

SpecShutdown == InitShutdown /\ [][NextShutdown]_vars

\* A signal handler has ended the process.
ExitedOnSignal ==
  proc.step = "exited" /\ proc.signal # "none" /\ proc.failedAt = "none"

\* C38 (shutdown), checked under SpecShutdown: when the handlers of SIGINT
\* or SIGTERM end the process, pool.end() has been called exactly once and
\* the pool is drained, the search client is closed, and the exit code is 0,
\* in whatever order the handlers registered in the process resume.
C38_ShutdownClosesBoth ==
  ExitedOnSignal =>
    /\ proc.endCalls = 1
    /\ proc.poolEnded
    /\ proc.esClosed
    /\ proc.code = 0

-----------------------------------------------------------------------------
(* Properties of the placeholders, checked under SpecTranslator *)

\* The value of the filter that the condition on column col with operator op
\* was built from.
OwnValue(filter, cond) ==
  LET f == filter.v
  IN CASE cond.col = "employer" -> Percent(f.employer)
       [] cond.col = "job_title" -> Percent(f.jobTitleContains)
       [] cond.col = "location" -> Percent(f.locationContains)
       [] cond.col = "industry" -> f.industry
       [] cond.col = "gender" -> f.gender
       [] cond.col = "annual_base_pay" ->
            Member(f.annualBasePay, IF cond.op = ">=" THEN "min" ELSE "max")
       [] cond.col = "years_experience_industry" ->
            Member(f.yearsExperienceIndustry, IF cond.op = ">=" THEN "min" ELSE "max")
       [] cond.col = "timestamp" ->
            IF cond.op = ">=" THEN f.timestampAfter ELSE f.timestampBefore
       [] cond.col = "health_insurance_offered" -> f.healthInsuranceOffered
       [] cond.col = "data_quality_score" -> f.dataQualityScoreMin

\* C39 (placeholders): in the queries the compensations resolver builds, the
\* conditions carry the placeholders $1..$n in the order they were added, the
\* count query has exactly n parameters, the k-th being the value of the
\* k-th condition's own filter slot, and the row query has the same n
\* parameters followed by limit at $n+1 and offset at $n+2, so that the
\* number of parameters equals the highest placeholder.
C39_PlaceholdersBound ==
  req.handler = "compensations" =>
    LET c == req.pgQuery.conditions
        p == req.pgQuery.params
        d == req.dataQuery
        n == Len(c)
    IN /\ \A k \in 1..n : c[k].idx = k
       /\ Len(p) = n
       /\ \A k \in 1..n : p[c[k].idx] = OwnValue(req.args.filter, c[k])
       /\ d.conditions = c
       /\ SubSeq(d.params, 1, n) = p
       /\ d.limitIdx = n + 1 /\ d.params[d.limitIdx] = Num(req.limit)
       /\ d.offsetIdx = n + 2 /\ d.params[d.offsetIdx] = Num(req.offset)
       /\ Len(d.params) = n + 2

\* A filter on the industry and on both ends of the base pay: three
\* conditions, limit at $4 and offset at $5.
C39_Witness ==
  /\ Translated
  /\ Len(req.pgQuery.conditions) = 3
  /\ req.pgQuery.conditions[3] = [col |-> "annual_base_pay", op |-> "<=", idx |-> 3]
  /\ req.pgQuery.params = <<Txt("Tech"), Num(4000000), Num(9500000)>>
  /\ req.dataQuery.limitIdx = 4 /\ req.dataQuery.offsetIdx = 5
  /\ req.dataQuery.params[5] = Num(5)

-----------------------------------------------------------------------------
(* Properties of the documents written, checked under SpecStreamer *)

\* The fields transformRecord adds.
DerivedFields == {"total_compensation", "compensation_range", "experience_level"}

\* The document has the fields of the row, each with the row's value, and
\* the three derived fields besides.
AddsOnly(doc, row) ==
  /\ DOMAIN doc = DOMAIN row \cup DerivedFields
  /\ \A f \in DOMAIN row : doc[f] = row[f]

\* The rows handed to transformRecord for the write that is being answered:
\* the window of the bulk write, or the data of the notifications whose index
\* request is awaited.
WriteInputs ==
  IF sync.pc = "bulk" THEN {sync.records[k] : k \in 1..Len(sync.records)}
  ELSE {inflight[k].msg.value.data :
          k \in {j \in 1..Len(inflight) : inflight[j].request.op = "index"}}

\* C40 (the document mirrors its row): every document written, by a bulk
\* window or by change capture, has the fields of the row it was made from
\* with their values unchanged plus the three derived fields, the row handed
\* to transformRecord is left as it was, and the document is stored under
\* the row's id, so that the key of every document is the id it carries.
C40_DocumentMirrorsRow ==
  /\ [](\A i \in DOMAIN esDocs : esDocs[i].id = i)
  /\ [][\A i \in DOMAIN esDocs' :
          (i \notin DOMAIN esDocs \/ esDocs'[i] # esDocs[i]) =>
             \E row \in WriteInputs : row.id = i /\ AddsOnly(esDocs'[i], row)]_vars
  /\ [][sync.pc = "bulk" => sync'.records = sync.records]_vars

\* The document of row 1 was written by a bulk window and written again by
\* change capture after an update of the row.
C40_Witness ==
  /\ 1 \in sync.written
  /\ lastEvent.outcome = "ok"
  /\ lastEvent.changed
  /\ 1 \in DOMAIN esDocs
  /\ esDocs[1].id = 1
  /\ AddsOnly(esDocs[1], pgStore[1])

====
